---- MODULE Spec2Model ----
(***************************************************************************)
(* Student Attitude & Behaviour API: the relational store (Department,     *)
(* Hobby, Student, StudentMetrics), the load_students management command   *)
(* and the CRUD views and serializers that write to the store.             *)
(*                                                                         *)
(* Text is a sequence of one-character strings, so that trimming and case  *)
(* folding are computed and not assumed.  Floats are integers counting     *)
(* hundredths (80.0 is 8000).  A raised exception is a result whose ok     *)
(* field is FALSE.                                                         *)
(***************************************************************************)
EXTENDS Integers, Sequences, FiniteSets, TLC

\* ------------------------------------------------------------------------
\* Bounds of the model
\* ------------------------------------------------------------------------
\* Largest primary key a table holds.
MaxId == 2
MaxWorkers == 2

\* ------------------------------------------------------------------------
\* Python text primitives
\* ------------------------------------------------------------------------
UPPER == <<"A","B","C","D","E","F","G","H","I","J","K","L","M","N","O","P","Q","R","S","T","U","V","W","X","Y","Z">>
LOWER == <<"a","b","c","d","e","f","g","h","i","j","k","l","m","n","o","p","q","r","s","t","u","v","w","x","y","z">>
DIGITS == <<"0","1","2","3","4","5","6","7","8","9">>
WHITESPACE == {" ", "\t"}

\* The characters of a tuple, as a set.
Chars(s) == {s[i] : i \in DOMAIN s}

\* str.casefold on one ASCII character.
casefold_char(c) ==
    IF c \in Chars(UPPER)
    THEN LOWER[CHOOSE i \in DOMAIN UPPER : UPPER[i] = c]
    ELSE c

\* str.casefold
str_casefold(s) == [i \in 1..Len(s) |-> casefold_char(s[i])]

RECURSIVE str_lstrip(_)
str_lstrip(s) ==
    IF s # << >> /\ s[1] \in WHITESPACE THEN str_lstrip(Tail(s)) ELSE s

RECURSIVE str_rstrip(_)
str_rstrip(s) ==
    IF s # << >> /\ s[Len(s)] \in WHITESPACE
    THEN str_rstrip(SubSeq(s, 1, Len(s) - 1))
    ELSE s

\* str.lstrip in the place of str.strip
str_strip_left_only(s) == str_lstrip(s)

\* str.strip
str_strip(s) == str_rstrip(str_lstrip(s))

\* re.sub(r'\s+', ' ', s)
RECURSIVE collapse_whitespace(_)
collapse_whitespace(s) ==
    IF s = << >> THEN << >>
    ELSE IF s[1] \in WHITESPACE
         THEN <<" ">> \o collapse_whitespace(str_lstrip(s))
         ELSE <<s[1]>> \o collapse_whitespace(Tail(s))

\* str.replace(old, '') for a one-character old
RECURSIVE str_remove(_, _)
str_remove(s, c) ==
    IF s = << >> THEN << >>
    ELSE IF s[1] = c THEN str_remove(Tail(s), c)
         ELSE <<s[1]>> \o str_remove(Tail(s), c)

\* Python's order on str: code point by code point, a prefix first.  The
\* characters the inputs use, in code point order.
CODE_POINTS == <<" ","%","&","(",")","-",".","0","1","2","3","4","5","6","7","8","9",">","?","A","B","C","D","E","F","G","H","I","J","K","L","M","N","O","P","Q","R","S","T","U","V","W","X","Y","Z","a","b","c","d","e","f","g","h","i","j","k","l","m","n","o","p","q","r","s","t","u","v","w","x","y","z">>

ord(c) == CHOOSE i \in DOMAIN CODE_POINTS : CODE_POINTS[i] = c

RECURSIVE str_less(_, _)
str_less(a, b) ==
    IF b = << >> THEN FALSE
    ELSE IF a = << >> THEN TRUE
    ELSE IF a[1] = b[1] THEN str_less(Tail(a), Tail(b))
    ELSE ord(a[1]) < ord(b[1])

\* sorted(set of str), as a tuple
RECURSIVE sorted(_)
sorted(S) ==
    IF S = {} THEN << >>
    ELSE LET least == CHOOSE x \in S : \A y \in S \ {x} : str_less(x, y)
         IN <<least>> \o sorted(S \ {least})

\* ------------------------------------------------------------------------
\* Python number parsing: int(str) and float(str) on decimal notation
\* ------------------------------------------------------------------------
Raised == [ok |-> FALSE, val |-> 0]
Returned(v) == [ok |-> TRUE, val |-> v]

is_digits(s) == s # << >> /\ Chars(s) \subseteq Chars(DIGITS)

digit_value(c) == (CHOOSE i \in DOMAIN DIGITS : DIGITS[i] = c) - 1

RECURSIVE digits_value(_)
digits_value(s) ==
    IF s = << >> THEN 0
    ELSE 10 * digits_value(SubSeq(s, 1, Len(s) - 1)) + digit_value(s[Len(s)])

\* The sign of a numeral and the rest of it.
numeral_sign(s) == IF s # << >> /\ s[1] = "-" THEN -1 ELSE 1
numeral_body(s) == IF s # << >> /\ s[1] \in {"-", "+"} THEN Tail(s) ELSE s

\* int(s) for s without surrounding whitespace.
int_of(s) ==
    IF is_digits(numeral_body(s))
    THEN Returned(numeral_sign(s) * digits_value(numeral_body(s)))
    ELSE Raised

\* int(s): surrounding whitespace, an optional sign, decimal digits.
py_int(value) == int_of(str_strip(value))

\* The float, in hundredths, of sign, whole digits and fraction digits (up to
\* two fraction digits are kept).
decimal_value(sign, whole, frac) ==
    IF Chars(whole) \cup Chars(frac) \subseteq Chars(DIGITS) /\ whole \o frac # << >>
    THEN Returned(sign * (100 * digits_value(whole)
                          + digits_value(SubSeq(frac \o <<"0","0">>, 1, 2))))
    ELSE Raised

\* The float of a numeral body, dots being the places of its points.
split_decimal(sign, body, dots) ==
    IF dots = {} THEN decimal_value(sign, body, << >>)
    ELSE IF Cardinality(dots) > 1 THEN Raised
    ELSE decimal_value(sign,
                       SubSeq(body, 1, (CHOOSE i \in dots : TRUE) - 1),
                       SubSeq(body, (CHOOSE i \in dots : TRUE) + 1, Len(body)))

\* float(s) for s without surrounding whitespace.
float_of(s) ==
    split_decimal(numeral_sign(s), numeral_body(s),
                  {i \in DOMAIN numeral_body(s) : numeral_body(s)[i] = "."})

\* float(s), in hundredths: surrounding whitespace, an optional sign, digits
\* with an optional point and fraction.
py_float(value) == float_of(str_strip(value))

\* round(x) for a float in hundredths: to the nearest integer, ties to even.
py_round(x) ==
    LET q == x \div 100
        r == x % 100
    IN IF r < 50 THEN q
       ELSE IF r > 50 THEN q + 1
       ELSE IF q % 2 = 0 THEN q ELSE q + 1

\* int(x) for a float in hundredths: truncation towards zero.
py_trunc(x) == IF x >= 0 THEN x \div 100 ELSE -((-x) \div 100)

\* ------------------------------------------------------------------------
\* contstants.py
\* ------------------------------------------------------------------------
normalize_str(string) == str_casefold(str_strip(string))

Gender == {"Male", "Female", "Other"}

GENDER_MAP ==
    (normalize_str(<<"M","a","l","e">>) :> "Male") @@
    (normalize_str(<<"F","e","m","a","l","e">>) :> "Female") @@
    (normalize_str(<<"O","t","h","e","r">>) :> "Other")

DailyStudyTime == {"0-30m", "30-60m", "1-2h", "2-3h", "3-4h", ">4h"}

DAILY_STUDY_TIME_MAP ==
    (normalize_str(<<"0"," ","-"," ","3","0"," ","m","i","n","u","t","e">>) :> <<"0-30m", 15>>) @@
    (normalize_str(<<"3","0"," ","-"," ","6","0"," ","m","i","n","u","t","e">>) :> <<"30-60m", 45>>) @@
    (normalize_str(<<"1"," ","-"," ","2"," ","H","o","u","r">>) :> <<"1-2h", 90>>) @@
    (normalize_str(<<"2"," ","-"," ","3"," ","h","o","u","r">>) :> <<"2-3h", 150>>) @@
    (normalize_str(<<"3"," ","-"," ","4"," ","h","o","u","r">>) :> <<"3-4h", 210>>) @@
    (normalize_str(<<"M","o","r","e"," ","T","h","a","n"," ","4"," ","h","o","u","r">>) :> <<">4h", 270>>)

StudyPreference == {"Morning", "Night", "Anytime"}

STUDY_PREFERENCE_MAP ==
    (normalize_str(<<"M","o","r","n","i","n","g">>) :> "Morning") @@
    (normalize_str(<<"N","i","g","h","t">>) :> "Night") @@
    (normalize_str(<<"A","n","y","t","i","m","e">>) :> "Anytime")

MediaVideoTime == {"0m", "1-30m", "30-60m", "60-90m", "90-120m", ">2h"}

MEDIA_VIDEO_TIME_MAP ==
    (normalize_str(<<"0"," ","M","i","n","u","t","e">>) :> <<"0m", 0>>) @@
    (normalize_str(<<"1"," ","-"," ","3","0"," ","M","i","n","u","t","e">>) :> <<"1-30m", 15>>) @@
    (normalize_str(<<"3","0"," ","-"," ","6","0"," ","M","i","n","u","t","e">>) :> <<"30-60m", 45>>) @@
    (normalize_str(<<"1"," ","-"," ","1",".","3","0"," ","h","o","u","r">>) :> <<"60-90m", 75>>) @@
    (normalize_str(<<"1",".","3","0"," ","-"," ","2"," ","h","o","u","r">>) :> <<"90-120m", 105>>) @@
    (normalize_str(<<"M","o","r","e"," ","t","h","a","n"," ","2"," ","h","o","u","r">>) :> <<">2h", 150>>)

TravelingTime == {"0-30m", "30-60m", "60-90m", "90-120m", "120-150m", "150-180m", ">3h"}

TRAVELING_TIME_MAP ==
    (normalize_str(<<"0"," ","-"," ","3","0"," ","m","i","n","u","t","e","s">>) :> <<"0-30m", 15>>) @@
    (normalize_str(<<"3","0"," ","-"," ","6","0"," ","m","i","n","u","t","e","s">>) :> <<"30-60m", 45>>) @@
    (normalize_str(<<"1"," ","-"," ","1",".","3","0"," ","h","o","u","r">>) :> <<"60-90m", 75>>) @@
    (normalize_str(<<"1",".","3","0"," ","-"," ","2"," ","h","o","u","r">>) :> <<"90-120m", 105>>) @@
    (normalize_str(<<"2"," ","-"," ","2",".","3","0"," ","h","o","u","r">>) :> <<"120-150m", 135>>) @@
    (normalize_str(<<"2",".","3","0"," ","-"," ","3"," ","h","o","u","r">>) :> <<"150-180m", 165>>) @@
    (normalize_str(<<"M","o","r","e"," ","t","h","a","n"," ","3"," ","h","o","u","r">>) :> <<">3h", 195>>)

StressLevel == {"Good", "Fabulous", "Bad", "Awful"}

STRESS_LEVEL_MAP ==
    (normalize_str(<<"A","w","f","u","l">>) :> "Awful") @@
    (normalize_str(<<"B","a","d">>) :> "Bad") @@
    (normalize_str(<<"G","o","o","d">>) :> "Good") @@
    (normalize_str(<<"f","a","b","u","l","o","u","s">>) :> "Fabulous")

FinancialStatus == {"Awful", "Bad", "Good", "Fabulous"}

FINANCIAL_STATUS_MAP ==
    (normalize_str(<<"A","w","f","u","l">>) :> "Awful") @@
    (normalize_str(<<"B","a","d">>) :> "Bad") @@
    (normalize_str(<<"G","o","o","d">>) :> "Good") @@
    (normalize_str(<<"F","a","b","u","l","o","u","s">>) :> "Fabulous")

\* A dictionary probe: KeyError when the key is absent.
lookup(map, key) == IF key \in DOMAIN map THEN Returned(map[key]) ELSE Raised

\* ------------------------------------------------------------------------
\* load_students.py: helper parser functions
\* ------------------------------------------------------------------------
parse_bool(value) ==
    LET v == str_casefold(str_strip(value))
    IN IF v \in {<<"y","e","s">>, <<"y">>, <<"t","r","u","e">>, <<"1">>} THEN Returned(TRUE)
       ELSE IF v \in {<<"n","o">>, <<"n">>, <<"f","a","l","s","e">>, <<"0">>} THEN Returned(FALSE)
       ELSE Raised

parse_int(value) == py_int(str_strip(value))

parse_float(value) == py_float(str_strip(value))

\* int(f) of a float that was parsed.
truncated(f) == IF f.ok THEN Returned(py_trunc(f.val)) ELSE Raised

parse_percent(value) ==
    truncated(py_float(str_strip(str_remove(str_strip(value), "%"))))

\* int(round(f)) of a float that was parsed, and the check of its range.
rounded_within(f, low, high) ==
    IF f.ok /\ low <= py_round(f.val) /\ py_round(f.val) <= high
    THEN Returned(py_round(f.val))
    ELSE Raised

\* int(round(float(value))) with no check of the range.
parse_height_cm_any(value) ==
    IF py_float(str_strip(value)).ok
    THEN Returned(py_round(py_float(str_strip(value)).val))
    ELSE Raised

parse_height_cm(value) == rounded_within(py_float(str_strip(value)), 50, 250)

parse_weight_kg(value) == rounded_within(py_float(str_strip(value)), 20, 300)

normalize_header(h) == str_casefold(collapse_whitespace(str_strip(h)))

\* CSV column names (with typos and all)
COL ==
    [CERT |-> normalize_header(<<"C","e","r","t","i","f","i","c","a","t","i","o","n"," ","C","o","u","r","s","e">>),
     GENDER |-> normalize_header(<<"G","e","n","d","e","r">>),
     DEPT |-> normalize_header(<<"D","e","p","a","r","t","m","e","n","t">>),
     HEIGHT |-> normalize_header(<<"H","e","i","g","h","t","(","C","M",")">>),
     WEIGHT |-> normalize_header(<<"W","e","i","g","h","t","(","K","G",")">>),
     MARK10 |-> normalize_header(<<"1","0","t","h"," ","M","a","r","k">>),
     MARK12 |-> normalize_header(<<"1","2","t","h"," ","M","a","r","k">>),
     COLLEGE |-> normalize_header(<<"c","o","l","l","e","g","e"," ","m","a","r","k">>),
     HOBBY |-> normalize_header(<<"h","o","b","b","i","e","s">>),
     STUDY_TIME |-> normalize_header(<<"d","a","i","l","y"," ","s","t","u","d","i","n","g"," ","t","i","m","e">>),
     PREF |-> normalize_header(<<"p","r","e","f","e","r"," ","t","o"," ","s","t","u","d","y"," ","i","n">>),
     SALARY |-> normalize_header(<<"s","a","l","a","r","y"," ","e","x","p","e","c","t","a","t","i","o","n">>),
     LIKE_DEGREE |-> normalize_header(<<"D","o"," ","y","o","u"," ","l","i","k","e"," ","y","o","u","r"," ","d","e","g","r","e","e","?">>),
     WILL |-> normalize_header(<<"w","i","l","l","i","n","g","n","e","s","s"," ","t","o"," ","p","u","r","s","u","e"," ","a"," ","c","a","r","e","e","r"," ","b","a","s","e","d"," ","o","n"," ","t","h","e","i","r"," ","d","e","g","r","e","e">>),
     MEDIA |-> normalize_header(<<"s","o","c","i","a","l"," ","m","e","d","a","i"," ","&"," ","v","i","d","e","o">>),
     TRAVEL |-> normalize_header(<<"T","r","a","v","e","l","l","i","n","g"," ","T","i","m","e">>),
     STRESS |-> normalize_header(<<"S","t","r","e","s","s"," ","L","e","v","e","l">>),
     FIN |-> normalize_header(<<"F","i","n","a","n","c","i","a","l"," ","S","t","a","t","u","s">>),
     PARTTIME |-> normalize_header(<<"p","a","r","t","-","t","i","m","e"," ","j","o","b">>)]

required ==
    <<COL.CERT, COL.GENDER, COL.DEPT, COL.HEIGHT, COL.WEIGHT,
      COL.MARK10, COL.MARK12, COL.COLLEGE, COL.HOBBY,
      COL.STUDY_TIME, COL.PREF, COL.SALARY, COL.LIKE_DEGREE,
      COL.WILL, COL.MEDIA, COL.TRAVEL, COL.STRESS, COL.FIN, COL.PARTTIME>>

\* ------------------------------------------------------------------------
\* CSV files given to load_students
\* ------------------------------------------------------------------------
\* The header line of the survey file, as test_loader.py writes it.
HEADER_FULL ==
    <<<<"C","e","r","t","i","f","i","c","a","t","i","o","n"," ","C","o","u","r","s","e">>, <<"G","e","n","d","e","r">>, <<"D","e","p","a","r","t","m","e","n","t">>, <<"H","e","i","g","h","t","(","C","M",")">>, <<"W","e","i","g","h","t","(","K","G",")">>,
      <<"1","0","t","h"," ","M","a","r","k">>, <<"1","2","t","h"," ","M","a","r","k">>, <<"c","o","l","l","e","g","e"," ","m","a","r","k">>, <<"h","o","b","b","i","e","s">>,
      <<"d","a","i","l","y"," ","s","t","u","d","i","n","g"," ","t","i","m","e">>, <<"p","r","e","f","e","r"," ","t","o"," ","s","t","u","d","y"," ","i","n">>, <<"s","a","l","a","r","y"," ","e","x","p","e","c","t","a","t","i","o","n">>,
      <<"D","o"," ","y","o","u"," ","l","i","k","e"," ","y","o","u","r"," ","d","e","g","r","e","e","?">>,
      <<"w","i","l","l","i","n","g","n","e","s","s"," ","t","o"," ","p","u","r","s","u","e"," ","a"," ","c","a","r","e","e","r"," ","b","a","s","e","d"," ","o","n"," ","t","h","e","i","r"," ","d","e","g","r","e","e"," "," ">>,
      <<"s","o","c","i","a","l"," ","m","e","d","a","i"," ","&"," ","v","i","d","e","o">>, <<"T","r","a","v","e","l","l","i","n","g"," ","T","i","m","e"," ">>, <<"S","t","r","e","s","s"," ","L","e","v","e","l"," ">>, <<"F","i","n","a","n","c","i","a","l"," ","S","t","a","t","u","s">>,
      <<"p","a","r","t","-","t","i","m","e"," ","j","o","b">>>>

\* The same header with the stress column under another name.
HEADER_NO_STRESS == [HEADER_FULL EXCEPT ![17] = <<"S","t","r","e","s","s">>]

CSV_HEADERS == <<HEADER_FULL, HEADER_NO_STRESS>>

\* Data lines, cell by cell in header order.  Lines 1 and 2 parse; line 3
\* fails in a Student column (height), line 4 in a metrics column (stress);
\* line 5 parses and its Department cell is blank; line 6 is line 1 with a
\* College Mark of 150, which float() reads.
CSV_ROWS ==
    << <<<<"Y","e","s">>, <<"m","a","l","e">>, <<"C","S","E">>, <<"1","7","0">>, <<"6","8",".","9">>, <<"8","0">>, <<"8","5">>, <<"7","8">>, <<"R","e","a","d","i","n","g">>,
         <<"0"," ","-"," ","3","0"," ","m","i","n","u","t","e">>, <<"m","o","r","n","i","n","g">>, <<"5","0","0","0","0">>, <<"Y","e","s">>, <<"7","0","%">>,
         <<"0"," ","m","i","n","u","t","e">>, <<"0"," ","-"," ","3","0"," ","m","i","n","u","t","e","s">>, <<"a","w","f","u","l">>, <<"a","w","f","u","l">>, <<"N","o">>>>,
       <<<<"n","o">>, <<" ","F","e","m","a","l","e">>, <<"E","E","E">>, <<"1","6","0",".","5">>, <<"5","5">>, <<"4","5",".","5">>, <<"5","0">>, <<"4","5">>, <<"G","a","m","i","n","g">>,
         <<"1"," ","-"," ","2"," ","H","o","u","r">>, <<"N","i","g","h","t">>, <<"2","0","0","0","0">>, <<"N">>, <<"5","5",".","9"," ","%">>,
         <<"M","o","r","e"," ","t","h","a","n"," ","2"," ","h","o","u","r">>, <<"1"," ","-"," ","1",".","3","0"," ","h","o","u","r">>, <<"B","a","d">>, <<"G","o","o","d">>, <<"y","e","s">>>>,
       <<<<"Y","e","s">>, <<"M","a","l","e">>, <<"C","S","E">>, <<"3","0","0">>, <<"7","0">>, <<"6","0">>, <<"6","5">>, <<"5","0">>, <<"G","a","m","i","n","g">>,
         <<"2"," ","-"," ","3"," ","h","o","u","r">>, <<"A","n","y","t","i","m","e">>, <<"3","0","0","0","0">>, <<"N","o">>, <<"4","0","%">>,
         <<"1"," ","-"," ","3","0"," ","M","i","n","u","t","e">>, <<"3","0"," ","-"," ","6","0"," ","m","i","n","u","t","e","s">>, <<"G","o","o","d">>, <<"B","a","d">>, <<"N","o">>>>,
       <<<<"Y","e","s">>, <<"O","t","h","e","r">>, <<" ","c","s","e"," ">>, <<"1","8","0">>, <<"9","0">>, <<"7","0">>, <<"7","5">>, <<"8","8">>, <<"R","e","a","d","i","n","g">>,
         <<"3"," ","-"," ","4"," ","h","o","u","r">>, <<"A","n","y","t","i","m","e">>, <<"4","0","0","0","0">>, <<"Y","e","s">>, <<"9","0","%">>,
         <<"3","0"," ","-"," ","6","0"," ","M","i","n","u","t","e">>, <<"M","o","r","e"," ","t","h","a","n"," ","3"," ","h","o","u","r">>, <<"F","a","i","r">>, <<"F","a","b","u","l","o","u","s">>, <<"Y","e","s">>>>,
       <<<<"N","o">>, <<"F","e","m","a","l","e">>, <<" ">>, <<"1","6","5">>, <<"6","0">>, <<"7","0">>, <<"7","5">>, <<"6","6">>, <<"R","e","a","d","i","n","g">>,
         <<"0"," ","-"," ","3","0"," ","m","i","n","u","t","e">>, <<"N","i","g","h","t">>, <<"2","5","0","0","0">>, <<"Y","e","s">>, <<"5","0","%">>,
         <<"0"," ","m","i","n","u","t","e">>, <<"0"," ","-"," ","3","0"," ","m","i","n","u","t","e","s">>, <<"G","o","o","d">>, <<"G","o","o","d">>, <<"N","o">>>>,
       <<<<"Y","e","s">>, <<"m","a","l","e">>, <<"C","S","E">>, <<"1","7","0">>, <<"6","8",".","9">>, <<"8","0">>, <<"8","5">>, <<"1","5","0">>, <<"R","e","a","d","i","n","g">>,
         <<"0"," ","-"," ","3","0"," ","m","i","n","u","t","e">>, <<"m","o","r","n","i","n","g">>, <<"5","0","0","0","0">>, <<"Y","e","s">>, <<"7","0","%">>,
         <<"0"," ","m","i","n","u","t","e">>, <<"0"," ","-"," ","3","0"," ","m","i","n","u","t","e","s">>, <<"a","w","f","u","l">>, <<"a","w","f","u","l">>, <<"N","o">>>> >>

\* The files on disk: whether the path exists, the header line and the data
\* lines (indices into CSV_HEADERS and CSV_ROWS).  A file is named by its
\* index in CSV_FILES.
CsvFile(exists, header, rows) == [exists |-> exists, header |-> header, rows |-> rows]

CSV_FILES ==
    << CsvFile(FALSE, 1, << >>),      \* no such path
       CsvFile(TRUE, 2, <<1>>),       \* a required column is missing
       CsvFile(TRUE, 1, << >>),       \* the header line only
       CsvFile(TRUE, 1, <<1>>),       \* one line, which parses
       CsvFile(TRUE, 1, <<2>>),       \* another line, which parses
       CsvFile(TRUE, 1, <<3>>),       \* one line, failing in a Student column
       CsvFile(TRUE, 1, <<4>>),       \* one line, failing in a metrics column
       CsvFile(TRUE, 1, <<1, 2>>),    \* two lines, both parse
       CsvFile(TRUE, 1, <<3, 2>>),    \* a Student failure before a good line
       CsvFile(TRUE, 1, <<4, 1>>),    \* a metrics failure before a good line
       CsvFile(TRUE, 1, <<5>>),       \* one line, with a blank Department
       CsvFile(TRUE, 1, <<6>>) >>     \* one line, with a mark above 100

CsvFiles == DOMAIN CSV_FILES

\* csv.DictReader: one dict per data line, keyed by the header's names.
DictReader(fieldnames, cells) ==
    [k \in Chars(fieldnames) |->
        cells[CHOOSE i \in DOMAIN fieldnames :
                 fieldnames[i] = k /\ \A j \in DOMAIN fieldnames : fieldnames[j] = k => j <= i]]
    @@ << >>

\* {normalize_header(k): v for k, v in raw.items()}
normalize_keys(raw) ==
    [n \in {normalize_header(k) : k \in DOMAIN raw} |->
        raw[CHOOSE k \in DOMAIN raw : normalize_header(k) = n]] @@ << >>

\* The rows list of handle, per header and data line (computed once).
ROWS_READ ==
    [h \in DOMAIN CSV_HEADERS |->
        [r \in DOMAIN CSV_ROWS |->
            normalize_keys(DictReader(CSV_HEADERS[h], CSV_ROWS[r]))] @@ << >>] @@ << >>

\* row[col]: KeyError when the row has no such key.
row_get(row, col) == IF col \in DOMAIN row THEN row[col] ELSE << >>
row_has(row, col) == col \in DOMAIN row

\* ------------------------------------------------------------------------
\* load_students.py: the body of the row loop that touches no table
\* ------------------------------------------------------------------------
\* The Student fields of one row (lines 207-219), gender, height and weight
\* being what GENDER_MAP and the parsers return; ok is FALSE when one of
\* them raises, and then nothing is appended to students.
student_row(row, gender, height, weight) ==
    [ok |-> /\ \A c \in {COL.DEPT, COL.HOBBY, COL.GENDER, COL.HEIGHT, COL.WEIGHT} : row_has(row, c)
            /\ gender.ok /\ height.ok /\ weight.ok,
     dept_name |-> normalize_str(row_get(row, COL.DEPT)),
     hobby_name |-> normalize_str(row_get(row, COL.HOBBY)),
     gender |-> gender.val,
     height_cm |-> height.val,
     weight_kg |-> weight.val]

parse_student(row) ==
    student_row(row,
                lookup(GENDER_MAP, normalize_str(row_get(row, COL.GENDER))),
                parse_height_cm(row_get(row, COL.HEIGHT)),
                parse_weight_kg(row_get(row, COL.WEIGHT)))

\* The metrics payload of one row (lines 225-247), got being what the maps
\* and the parsers return; ok is FALSE when one of them raises, and then
\* nothing is appended to metrics_payloads.
metrics_row(row, got) ==
    IF ~(/\ \A i \in DOMAIN required : row_has(row, required[i])
         /\ \A f \in DOMAIN got : got[f].ok)
    THEN [ok |-> FALSE, payload |-> << >>]
    ELSE [ok |-> TRUE,
          payload |->
            [certification_course |-> got.cert.val,
             mark_10th |-> got.mark10.val,
             mark_12th |-> got.mark12.val,
             college_mark |-> got.college.val,
             daily_studying_time |-> got.study.val[1],
             study_minutes |-> got.study.val[2],
             prefer_to_study_in |-> got.pref.val,
             salary_expectation |-> got.salary.val,
             likes_degree |-> got.likes.val,
             part_time_job |-> got.parttime.val,
             financial_status |-> got.fin.val,
             willingness_percent |-> got.will.val,
             social_media_video |-> got.media.val[1],
             social_minutes |-> got.media.val[2],
             travelling_time |-> got.travel.val[1],
             travel_minutes |-> got.travel.val[2],
             stress_level |-> got.stress.val]]

parse_metrics(row) ==
    metrics_row(row,
        [study |-> lookup(DAILY_STUDY_TIME_MAP, normalize_str(row_get(row, COL.STUDY_TIME))),
         media |-> lookup(MEDIA_VIDEO_TIME_MAP, normalize_str(row_get(row, COL.MEDIA))),
         travel |-> lookup(TRAVELING_TIME_MAP, normalize_str(row_get(row, COL.TRAVEL))),
         cert |-> parse_bool(row_get(row, COL.CERT)),
         mark10 |-> parse_float(row_get(row, COL.MARK10)),
         mark12 |-> parse_float(row_get(row, COL.MARK12)),
         college |-> parse_float(row_get(row, COL.COLLEGE)),
         pref |-> lookup(STUDY_PREFERENCE_MAP, normalize_str(row_get(row, COL.PREF))),
         salary |-> parse_int(row_get(row, COL.SALARY)),
         likes |-> parse_bool(row_get(row, COL.LIKE_DEGREE)),
         parttime |-> parse_bool(row_get(row, COL.PARTTIME)),
         fin |-> lookup(FINANCIAL_STATUS_MAP, normalize_str(row_get(row, COL.FIN))),
         will |-> parse_percent(row_get(row, COL.WILL)),
         stress |-> lookup(STRESS_LEVEL_MAP, normalize_str(row_get(row, COL.STRESS)))])

\* What the try block makes of one data line.
parse_row(row) ==
    [student |-> parse_student(row), metrics |-> parse_metrics(row)]

\* What the try block makes of each data line (computed once).
ROWS_PARSED ==
    [h \in DOMAIN CSV_HEADERS |->
        [r \in DOMAIN CSV_ROWS |-> parse_row(ROWS_READ[h][r])] @@ << >>] @@ << >>

\* What handle reads from each file before it touches a table: the parsed
\* data lines and the sorted department and hobby names of lines 178-179
\* (computed once per file).
read_names(parsed) ==
    [parsed |-> parsed,
     dept_names |-> sorted({parsed[i].student.dept_name : i \in DOMAIN parsed}),
     hobby_names |-> sorted({parsed[i].student.hobby_name : i \in DOMAIN parsed})]

read_file(file) ==
    read_names([i \in DOMAIN file.rows |-> ROWS_PARSED[file.header][file.rows[i]]]
               @@ << >>)

FILES_READ == [f \in CsvFiles |-> read_file(CSV_FILES[f])] @@ << >>

\* The normalized field names of each header (computed once).
HEADERS_NORMALIZED ==
    [h \in DOMAIN CSV_HEADERS |-> {normalize_header(k) : k \in Chars(CSV_HEADERS[h])}]
    @@ << >>

\* ------------------------------------------------------------------------
\* models.py: the four tables
\* ------------------------------------------------------------------------
\* Department and Hobby rows are [id, name]; Student rows are
\* [id, gender, department, height_cm, weight_kg, hobby] with department and
\* hobby holding primary keys; StudentMetrics rows are [id, student] and the
\* seventeen survey fields.  can_return_rows is the backend's
\* can_return_rows_from_bulk_insert: whether bulk_create sets the primary
\* keys of the objects it inserts.  in_flight holds, for each of the
\* requests the server handles at once, the POST of a Department or Hobby
\* that was validated and has not reached its INSERT.
VARIABLES department, hobby, student, metrics, can_return_rows, response, in_flight,
          auth_user

vars == <<department, hobby, student, metrics, can_return_rows, response, in_flight,
          auth_user>>

\* The store as one value, for the operators that compute on it.
Store ==
    [department |-> department, hobby |-> hobby, student |-> student,
     metrics |-> metrics]

EmptyStore ==
    [department |-> {}, hobby |-> {}, student |-> {}, metrics |-> {}]

Tables == {"department", "hobby", "student", "metrics"}

\* The id AutoField every model gets: the largest primary key of a table
\* (0 when it is empty); an INSERT takes the key after it.
last_pk(rows) ==
    IF rows = {} THEN 0
    ELSE CHOOSE n \in {r.id : r \in rows} : \A r \in rows : r.id <= n

\* The names of the survey fields of StudentMetrics.
MetricsFields ==
    {"certification_course", "mark_10th", "mark_12th", "college_mark",
     "daily_studying_time", "prefer_to_study_in", "salary_expectation",
     "likes_degree", "willingness_percent", "social_media_video",
     "travelling_time", "stress_level", "financial_status", "part_time_job",
     "study_minutes", "social_minutes", "travel_minutes"}

\* Model.objects.bulk_create(..., ignore_conflicts=True) on a table with a
\* unique name: a name already stored is skipped, the others are inserted in
\* the order given.
bulk_create_names(rows, names) ==
    LET fresh == SelectSeq(names, LAMBDA n : \A r \in rows : r.name # n)
    IN rows \cup {[id |-> last_pk(rows) + i, name |-> fresh[i]] : i \in DOMAIN fresh}

\* {row.name: row for row in Model.objects.filter(name__in=names)}, holding
\* the primary key of each row.
by_name(rows, names) ==
    [n \in {r.name : r \in rows} \cap names |-> (CHOOSE r \in rows : r.name = n).id]

\* ------------------------------------------------------------------------
\* load_students.py: Command.handle
\* ------------------------------------------------------------------------
\* The deletes of --truncate without the one of Hobby.
truncate_tables_keeping_hobby(store) ==
    [store EXCEPT !.metrics = {}, !.student = {}, !.department = {}]

\* if truncate: the four deletes (lines 140-145).
truncate_tables(store) ==
    [store EXCEPT !.metrics = {}, !.student = {}, !.department = {}, !.hobby = {}]

\* Lines 177-192: the Departments and the Hobbies the file names are
\* inserted, those already stored being skipped.
ensure_names(store, read) ==
    [store EXCEPT
       !.department = bulk_create_names(store.department, read.dept_names),
       !.hobby = bulk_create_names(store.hobby, read.hobby_names)]

\* The loop over rows (lines 199-252).  parsed is what the try block makes of
\* each data line; the result holds students, metrics_payloads and the line
\* numbers of errors.  A row appends to students as soon as its Student
\* fields are built (line 222), and to metrics_payloads only at the end of
\* the try block (line 248); a row that raises appends its line to errors.
build_rows(parsed, dept_by_name, hobby_by_name) ==
    LET student_built(i) ==
            /\ parsed[i].student.dept_name \in DOMAIN dept_by_name
            /\ parsed[i].student.hobby_name \in DOMAIN hobby_by_name
            /\ parsed[i].student.ok
        payload_built(i) == student_built(i) /\ parsed[i].metrics.ok
        raised(i) == ~payload_built(i)
        lines == [i \in DOMAIN parsed |-> i]
        appended == SelectSeq(lines, student_built)
        completed == SelectSeq(lines, payload_built)
        failed == SelectSeq(lines, raised)
    IN [students |->
          [k \in DOMAIN appended |->
              [gender |-> parsed[appended[k]].student.gender,
               department |-> dept_by_name[parsed[appended[k]].student.dept_name],
               height_cm |-> parsed[appended[k]].student.height_cm,
               weight_kg |-> parsed[appended[k]].student.weight_kg,
               hobby |-> hobby_by_name[parsed[appended[k]].student.hobby_name]]],
        metrics_payloads |->
          [k \in DOMAIN completed |-> parsed[completed[k]].metrics.payload],
        errors |-> [k \in DOMAIN failed |-> failed[k] + 1]]

\* zip(created_students, metrics_payloads) into StudentMetrics rows
\* (lines 268-271).
zip_metrics(first_id, created_ids, metrics_payloads) ==
    LET n == IF Len(created_ids) < Len(metrics_payloads)
             THEN Len(created_ids) ELSE Len(metrics_payloads)
    IN {metrics_payloads[i] @@ [id |-> first_id + i, student |-> created_ids[i]]
           : i \in 1..n}

\* What one run of handle reports.
Outcome(store, raised, status, errors, n_students, n_metrics) ==
    [store |-> store, raised |-> raised, status |-> status, errors |-> errors,
     students_created |-> n_students, metrics_created |-> n_metrics]

\* Lines 254-290: the Students are inserted, zip pairs them with
\* metrics_payloads and the StudentMetrics are inserted.  returns_pk says
\* whether the backend's bulk insert hands the primary keys back (line 262).
insert_rows(store, built, returns_pk) ==
    LET n == Len(built.students)
        created_ids == [i \in 1..n |-> last_pk(store.student) + i]
        with_students ==
            [store EXCEPT
               !.student = @ \cup {built.students[i] @@ [id |-> created_ids[i]] : i \in 1..n}]
        new_metrics == zip_metrics(last_pk(store.metrics), created_ids,
                                   built.metrics_payloads)
    IN IF n = 0
       THEN Outcome(store, TRUE, "all_rows_failed", built.errors, 0, 0)
       ELSE IF ~returns_pk
       THEN Outcome(with_students, TRUE, "no_pks", built.errors, n, 0)
       ELSE Outcome([with_students EXCEPT !.metrics = @ \cup new_metrics],
                    FALSE, "loaded", built.errors, n, Cardinality(new_metrics))

\* Lines 195-290: the rows are built from the names stored and inserted.
load_rows(ensured, read, returns_pk) ==
    insert_rows(ensured,
                build_rows(read.parsed,
                           by_name(ensured.department, Chars(read.dept_names)),
                           by_name(ensured.hobby, Chars(read.hobby_names))),
                returns_pk)

\* Lines 149-290: the header is checked and the rows are read and loaded.
read_csv(cleared, file, read, returns_pk) ==
    IF \E i \in DOMAIN required : required[i] \notin HEADERS_NORMALIZED[file.header]
    THEN Outcome(cleared, TRUE, "missing_columns", << >>, 0, 0)
    ELSE IF file.rows = << >>
    THEN Outcome(cleared, FALSE, "empty", << >>, 0, 0)
    ELSE load_rows(ensure_names(cleared, read), read, returns_pk)

\* The body of handle.  raised is TRUE when the body leaves by CommandError.
handle_body(store, path, truncate, returns_pk) ==
    IF ~CSV_FILES[path].exists
    THEN Outcome(store, TRUE, "file_not_found", << >>, 0, 0)
    ELSE read_csv(IF truncate THEN truncate_tables(store) ELSE store,
                  CSV_FILES[path], FILES_READ[path], returns_pk)

\* @transaction.atomic: the writes of a body that raises are rolled back.
transaction_atomic(before, outcome) ==
    [outcome EXCEPT !.store = IF outcome.raised THEN before ELSE @]

\* handle without @transaction.atomic: the writes made before a CommandError
\* stay.
handle_without_atomic(store, path, truncate, returns_pk) ==
    handle_body(store, path, truncate, returns_pk)

\* Command.handle (lines 130-290).
handle(store, path, truncate, returns_pk) ==
    transaction_atomic(store, handle_body(store, path, truncate, returns_pk))

\* ------------------------------------------------------------------------
\* serializers.py
\* ------------------------------------------------------------------------
\* minutes_from_enum: the minutes the map pairs with an enum value.
minutes_from_enum(map, enum_value) ==
    IF \E k \in DOMAIN map : map[k][1] = enum_value
    THEN Returned(map[CHOOSE k \in DOMAIN map : map[k][1] = enum_value][2])
    ELSE Raised

\* The fields StudentMetricsWriteSerializer declares read_only (lines 82-84):
\* a value the client sends for them is dropped.
MetricsReadOnly == {"study_minutes", "social_minutes", "travel_minutes"}

\* The model fields with a default (models.py lines 86, 118, 147), which the
\* serializer does not require.
MetricsOptional == {"certification_course", "likes_degree", "part_time_job"}

MetricsDefaults ==
    [certification_course |-> FALSE, likes_degree |-> FALSE, part_time_job |-> FALSE]

\* The field validators of StudentMetrics (models.py lines 86-147), floats
\* in hundredths.
\* The field validators with stress_level a free text.
metrics_field_valid_any_stress(field, value) ==
    CASE field \in {"mark_10th", "mark_12th", "college_mark"} ->
            0 <= value /\ value <= 100 * 100
      [] field = "salary_expectation" -> 0 <= value /\ value <= 10000000
      [] field = "willingness_percent" -> 0 <= value /\ value <= 100
      [] field = "daily_studying_time" -> value \in DailyStudyTime
      [] field = "prefer_to_study_in" -> value \in StudyPreference
      [] field = "social_media_video" -> value \in MediaVideoTime
      [] field = "travelling_time" -> value \in TravelingTime
      [] field = "stress_level" -> TRUE
      [] field = "financial_status" -> value \in FinancialStatus
      [] OTHER -> value \in BOOLEAN

metrics_field_valid(field, value) ==
    CASE field \in {"mark_10th", "mark_12th", "college_mark"} ->
            0 <= value /\ value <= 100 * 100
      [] field = "salary_expectation" -> 0 <= value /\ value <= 10000000
      [] field = "willingness_percent" -> 0 <= value /\ value <= 100
      [] field = "daily_studying_time" -> value \in DailyStudyTime
      [] field = "prefer_to_study_in" -> value \in StudyPreference
      [] field = "social_media_video" -> value \in MediaVideoTime
      [] field = "travelling_time" -> value \in TravelingTime
      [] field = "stress_level" -> value \in StressLevel
      [] field = "financial_status" -> value \in FinancialStatus
      [] OTHER -> value \in BOOLEAN

\* validate without the lookup of study_minutes in DAILY_STUDY_TIME_MAP.
metrics_validate_without_study_map(attrs) ==
    LET study == IF "daily_studying_time" \in DOMAIN attrs
                 THEN [study_minutes |-> 0]
                 ELSE << >>
        social == IF "social_media_video" \in DOMAIN attrs
                  THEN [social_minutes |->
                          minutes_from_enum(MEDIA_VIDEO_TIME_MAP, attrs.social_media_video).val]
                  ELSE << >>
        travel == IF "travelling_time" \in DOMAIN attrs
                  THEN [travel_minutes |->
                          minutes_from_enum(TRAVELING_TIME_MAP, attrs.travelling_time).val]
                  ELSE << >>
    IN study @@ social @@ travel @@ attrs

\* StudentMetricsWriteSerializer.validate (lines 91-99): the minutes of each
\* enum that attrs holds.
metrics_validate(attrs) ==
    LET study == IF "daily_studying_time" \in DOMAIN attrs
                 THEN [study_minutes |->
                         minutes_from_enum(DAILY_STUDY_TIME_MAP, attrs.daily_studying_time).val]
                 ELSE << >>
        social == IF "social_media_video" \in DOMAIN attrs
                  THEN [social_minutes |->
                          minutes_from_enum(MEDIA_VIDEO_TIME_MAP, attrs.social_media_video).val]
                  ELSE << >>
        travel == IF "travelling_time" \in DOMAIN attrs
                  THEN [travel_minutes |->
                          minutes_from_enum(TRAVELING_TIME_MAP, attrs.travelling_time).val]
                  ELSE << >>
    IN study @@ social @@ travel @@ attrs

\* StudentMetricsWriteSerializer on data: the names of the fields in error
\* and, when there is none, the validated attrs.
metrics_is_valid(data, partial) ==
    LET writable == MetricsFields \ MetricsReadOnly
        given == DOMAIN data \cap writable
        missing == IF partial THEN {} ELSE (writable \ MetricsOptional) \ given
        invalid == {f \in given : ~metrics_field_valid(f, data[f])}
        errors == missing \cup invalid
    IN [errors |-> errors,
        attrs |-> IF errors = {} THEN metrics_validate([f \in given |-> data[f]])
                  ELSE << >>]

StudentFields == {"gender", "department", "height_cm", "weight_kg", "hobby"}

\* The field validators of Student (models.py lines 37-64) and the
\* PrimaryKeyRelatedFields of StudentWriteSerializer (lines 156-161).
student_field_valid(store, field, value) ==
    CASE field = "gender" -> value \in Gender
      [] field = "department" -> \E d \in store.department : d.id = value
      [] field = "hobby" -> \E h \in store.hobby : h.id = value
      [] field = "height_cm" -> 50 <= value /\ value <= 250
      [] field = "weight_kg" -> 20 <= value /\ value <= 300

\* StudentWriteSerializer.run_validation on data, nested being what the
\* metrics serializer makes of data.metrics.
run_validation(store, data, partial, nested) ==
    LET given == DOMAIN data \cap StudentFields
        missing == IF partial THEN {} ELSE (StudentFields \cup {"metrics"}) \ DOMAIN data
        invalid == {f \in given : ~student_field_valid(store, f, data[f])}
        errors == missing \cup invalid \cup (IF nested.errors = {} THEN {} ELSE {"metrics"})
    IN [errors |-> errors,
        validated_data |->
          IF errors # {} THEN << >>
          ELSE IF "metrics" \in DOMAIN data
               THEN [f \in given |-> data[f]] @@ [metrics |-> nested.attrs]
               ELSE [f \in given |-> data[f]]]

\* StudentWriteSerializer.is_valid on data: the names of the fields in error
\* and, when there is none, validated_data.
student_is_valid(store, data, partial) ==
    run_validation(store, data, partial,
                   IF "metrics" \in DOMAIN data
                   THEN metrics_is_valid(data.metrics, partial)
                   ELSE [errors |-> {}, attrs |-> << >>])

\* What a serializer method that writes leaves behind: the store and
\* whether it raised.
Saved(store, pk) == [store |-> store, raised |-> FALSE, pk |-> pk]
SaveRaised(store) == [store |-> store, raised |-> TRUE, pk |-> 0]

\* The body of StudentWriteSerializer.create (lines 179-185).  fault names
\* the INSERT the database refuses, if any.
create_body(store, validated_data, fault) ==
    LET metrics_data == validated_data.metrics
        pk == last_pk(store.student) + 1
        new_student == [f \in StudentFields |-> validated_data[f]] @@ [id |-> pk]
        with_student == [store EXCEPT !.student = @ \cup {new_student}]
        new_metrics == metrics_data @@ MetricsDefaults
                       @@ [id |-> last_pk(store.metrics) + 1, student |-> pk]
    IN IF fault = "student" THEN SaveRaised(store)
       ELSE IF fault = "metrics" THEN SaveRaised(with_student)
       ELSE Saved([with_student EXCEPT !.metrics = @ \cup {new_metrics}], pk)

\* create without @transaction.atomic: a Student inserted before the INSERT
\* that fails stays.
create_without_atomic(store, validated_data, fault) ==
    create_body(store, validated_data, fault)

\* StudentWriteSerializer.create, under @transaction.atomic (line 177).
create(store, validated_data, fault) ==
    transaction_atomic(store, create_body(store, validated_data, fault))

\* setattr(instance, attr, value) for every item of attrs
set_attrs(row, attrs) ==
    [f \in DOMAIN row |-> IF f \in DOMAIN attrs THEN attrs[f] ELSE row[f]]

\* The body of StudentWriteSerializer.update (lines 189-206).  instance.metrics
\* raises when the Student has no StudentMetrics.
update_body(store, pk, validated_data) ==
    LET instance == CHOOSE s \in store.student : s.id = pk
        student_attrs == [f \in DOMAIN validated_data \ {"metrics"} |-> validated_data[f]]
        saved == [store EXCEPT
                    !.student = (@ \ {instance}) \cup {set_attrs(instance, student_attrs)}]
        related == {m \in store.metrics : m.student = pk}
    IN IF "metrics" \notin DOMAIN validated_data THEN Saved(saved, pk)
       ELSE IF related = {} THEN SaveRaised(saved)
       ELSE LET row == CHOOSE m \in related : TRUE
            IN Saved([saved EXCEPT
                        !.metrics = (@ \ {row})
                                    \cup {set_attrs(row, validated_data.metrics)}], pk)

\* StudentWriteSerializer.update, under @transaction.atomic (line 187).
update(store, pk, validated_data) ==
    transaction_atomic(store, update_body(store, pk, validated_data))

\* ------------------------------------------------------------------------
\* models.py: on_delete rules
\* ------------------------------------------------------------------------
\* Student.delete() with no cascade to StudentMetrics.
delete_student_without_cascade(store, pk) ==
    [store EXCEPT !.student = {s \in @ : s.id # pk}]

\* Student.delete(): StudentMetrics.student is on_delete=CASCADE (line 84).
delete_student(store, pk) ==
    [store EXCEPT !.student = {s \in @ : s.id # pk},
                  !.metrics = {m \in @ : m.student # pk}]

\* A foreign key that protects nothing.
protected_never(store, table, pk) ==
    FALSE

\* Student.department and Student.hobby are on_delete=PROTECT (lines 44-64):
\* delete() raises ProtectedError while a Student refers to the row.
protected(store, table, pk) ==
    \E s \in store.student : s[table] = pk

\* Department.delete() and Hobby.delete() on a row no Student refers to.
delete_named(store, table, pk) ==
    [store EXCEPT ![table] = {r \in @ : r.id # pk}]

\* ------------------------------------------------------------------------
\* views.py
\* ------------------------------------------------------------------------
\* What a view answers: the store it leaves, the HTTP status, the primary
\* key of the exchange (the <pk> of a detail route, the id in the body of a
\* 201, 0 for a POST that creates nothing) and the names of the fields in
\* error in the body of a 400.
Reply(store, status, pk, errors) ==
    [store |-> store, status |-> status, pk |-> pk, errors |-> errors]

\* The answer to a save: 500 when it raised, status otherwise.
saved_reply(saved, pk, status) ==
    IF saved.raised THEN Reply(saved.store, 500, pk, {})
    ELSE Reply(saved.store, status, saved.pk, {})

\* CreateModelMixin.create on what is_valid made of the data.
perform_create(store, checked, fault) ==
    IF checked.errors # {} THEN Reply(store, 400, 0, checked.errors)
    ELSE saved_reply(create(store, checked.validated_data, fault), 0, 201)

\* StudentListCreateView, POST: StudentWriteSerializer.is_valid and save.
student_post(store, data, fault) ==
    perform_create(store, student_is_valid(store, data, FALSE), fault)

\* UpdateModelMixin.update on what is_valid made of the data.
perform_update(store, pk, checked) ==
    IF checked.errors # {} THEN Reply(store, 400, pk, checked.errors)
    ELSE saved_reply(update(store, pk, checked.validated_data), pk, 200)

\* StudentDetailView, PUT (partial FALSE) and PATCH (partial TRUE).
student_put(store, pk, data, partial) ==
    IF ~\E s \in store.student : s.id = pk THEN Reply(store, 404, pk, {})
    ELSE perform_update(store, pk, student_is_valid(store, data, partial))

\* PrimaryKeyRelatedField.to_internal_value on a JSON string: the queryset
\* is asked for pk=text, which finds a row only when text is a numeral and
\* a row has that key; any other text is answered incorrect_type.
related_pk(rows, text) ==
    IF int_of(text).ok /\ (\E r \in rows : r.id = int_of(text).val)
    THEN Returned(int_of(text).val)
    ELSE Raised

\* StudentListCreateView, POST, for a body whose department and hobby are
\* JSON strings, as the PrimaryKeyRelatedFields of StudentWriteSerializer
\* read them.
student_post_text(store, data, fault) ==
    IF \E f \in {"department", "hobby"} : ~related_pk(store[f], data[f]).ok
    THEN Reply(store, 400, 0,
               {f \in {"department", "hobby"} : ~related_pk(store[f], data[f]).ok})
    ELSE student_post(store,
                      [data EXCEPT !.department = related_pk(store.department, @).val,
                                   !.hobby = related_pk(store.hobby, @).val],
                      fault)

\* StudentDetailView, DELETE.
student_delete(store, pk) ==
    IF ~\E s \in store.student : s.id = pk THEN Reply(store, 404, pk, {})
    ELSE Reply(delete_student(store, pk), 204, pk, {})

\* DepartmentDetailView.destroy and HobbyDetailView.destroy (lines 162-199),
\* table being "department" or "hobby".
destroy(store, table, pk) ==
    IF ~\E r \in store[table] : r.id = pk THEN Reply(store, 404, pk, {})
    ELSE IF protected(store, table, pk) THEN Reply(store, 409, pk, {})
    ELSE Reply(delete_named(store, table, pk), 204, pk, {})

NAME_MIN_LEN == 2
NAME_MAX_LEN == 100

\* _NameValidationSerializer.validate_name on the value that
\* CharField(required=True, allow_blank=False) hands it: the field trims the
\* string and refuses a blank one, validate_name trims and checks the length.
validate_name(value) ==
    IF str_strip(value) = << >> THEN Raised
    ELSE IF Len(str_strip(value)) < NAME_MIN_LEN THEN Raised
    ELSE IF Len(str_strip(value)) > NAME_MAX_LEN THEN Raised
    ELSE Returned(str_strip(value))

\* DepartmentListCreateView and HobbyListCreateView, POST, from perform_create
\* on: the INSERT of a validated name and the answer.  The unique index of
\* name refuses a name a row holds, and no code catches that IntegrityError.
name_create(store, table, name) ==
    IF \E r \in store[table] : r.name = name THEN Reply(store, 500, 0, {})
    ELSE Reply([store EXCEPT ![table] = @ \cup {[id |-> last_pk(@) + 1, name |-> name]}],
               201, last_pk(store[table]) + 1, {})

\* DepartmentDetailView and HobbyDetailView, PUT and PATCH with a name.
name_update(store, table, pk, value) ==
    IF ~\E r \in store[table] : r.id = pk THEN Reply(store, 404, pk, {})
    ELSE IF ~validate_name(value).ok THEN Reply(store, 400, pk, {"name"})
    ELSE IF \E r \in store[table] : r.name = validate_name(value).val /\ r.id # pk
         THEN Reply(store, 500, pk, {})
    ELSE Reply([store EXCEPT ![table] =
                   {IF r.id = pk THEN [r EXCEPT !.name = validate_name(value).val] ELSE r
                      : r \in @}],
               200, pk, {})

\* ------------------------------------------------------------------------
\* analytics_views.py
\* ------------------------------------------------------------------------
\* Python's None: a query parameter that is not given, a column that is NULL.
\* An Optional[int], Optional[float] or Optional[bool] is Returned(v) or,
\* for None, Raised.
None == <<"None">>

\* The values a Student's gender and a StudentMetrics' stress_level and
\* daily_studying_time are stored as, as text.
ENUM_TEXT ==
    [Male |-> <<"M","a","l","e">>, Female |-> <<"F","e","m","a","l","e">>, Other |-> <<"O","t","h","e","r">>, Good |-> <<"G","o","o","d">>,
     Fabulous |-> <<"F","a","b","u","l","o","u","s">>, Bad |-> <<"B","a","d">>, Awful |-> <<"A","w","f","u","l">>]
    @@ ("0-30m" :> <<"0","-","3","0","m">>) @@ ("30-60m" :> <<"3","0","-","6","0","m">>) @@ ("1-2h" :> <<"1","-","2","h">>)
    @@ ("2-3h" :> <<"2","-","3","h">>) @@ ("3-4h" :> <<"3","-","4","h">>) @@ (">4h" :> <<">","4","h">>)

\* _parse_bool with a token it does not know read as False.
_parse_bool_unknown_is_false(value) ==
    IF value = None THEN Raised
    ELSE IF str_casefold(str_strip(value)) \in {<<"1">>, <<"t","r","u","e">>, <<"y","e","s">>, <<"y">>, <<"t">>}
         THEN Returned(TRUE)
    ELSE Returned(FALSE)

_parse_bool(value) ==
    IF value = None THEN Raised
    ELSE IF str_casefold(str_strip(value)) \in {<<"1">>, <<"t","r","u","e">>, <<"y","e","s">>, <<"y">>, <<"t">>}
         THEN Returned(TRUE)
    ELSE IF str_casefold(str_strip(value)) \in {<<"0">>, <<"f","a","l","s","e">>, <<"n","o">>, <<"n">>, <<"f">>}
         THEN Returned(FALSE)
    ELSE Raised

_parse_int(value) ==
    IF value = None \/ value = << >> THEN Raised ELSE py_int(value)

\* A float is held in hundredths.
_parse_float(value) ==
    IF value = None \/ value = << >> THEN Raised ELSE py_float(value)

\* _limit without max(1, ...): a number below 1 is returned as it is.
_limit_without_floor(value, default, max_value) ==
    IF ~_parse_int(value).ok THEN default
    ELSE IF _parse_int(value).val > max_value THEN max_value
    ELSE _parse_int(value).val

_limit(value, default, max_value) ==
    IF ~_parse_int(value).ok THEN default
    ELSE IF _parse_int(value).val > max_value THEN max_value
    ELSE IF _parse_int(value).val < 1 THEN 1
    ELSE _parse_int(value).val

\* select_related as an inner join with the metrics: a Student that has no
\* StudentMetrics has no row.
select_related_measured(store) ==
    {[pk |-> s.id, gender |-> s.gender, height_cm |-> s.height_cm,
      weight_kg |-> s.weight_kg, department_id |-> s.department,
      hobby_id |-> s.hobby,
      department__name |-> (CHOOSE d \in store.department : d.id = s.department).name,
      hobby__name |-> (CHOOSE h \in store.hobby : h.id = s.hobby).name,
      metrics |-> {m \in store.metrics : m.student = s.id}] :
        s \in {x \in store.student : \E m \in store.metrics : m.student = x.id}}

\* Student.objects.select_related('department', 'hobby') with the metrics
\* row of the reverse one-to-one relation joined to it: a Student that has
\* no StudentMetrics keeps its row, with no metrics.
select_related(store) ==
    {[pk |-> s.id, gender |-> s.gender, height_cm |-> s.height_cm,
      weight_kg |-> s.weight_kg, department_id |-> s.department,
      hobby_id |-> s.hobby,
      department__name |-> (CHOOSE d \in store.department : d.id = s.department).name,
      hobby__name |-> (CHOOSE h \in store.hobby : h.id = s.hobby).name,
      metrics |-> {m \in store.metrics : m.student = s.id}] : s \in store.student}

\* The column of the joined metrics row, NULL when there is none.
metrics_column(row, field) ==
    IF row.metrics = {} THEN None ELSE (CHOOSE m \in row.metrics : TRUE)[field]

\* order_by with the key left out: the rows by ascending primary key.
order_by_pk(rows, key) ==
    [i \in 1..Cardinality(rows) |->
        CHOOSE r \in rows : Cardinality({x \in rows : x.pk < r.pk}) = i - 1]

\* QuerySet.order_by(key, 'pk') as a list, key being the function from a
\* row to the number it is ordered by: the rows by ascending key, those of
\* one key by ascending primary key.
order_by(rows, key) ==
    [i \in 1..Cardinality(rows) |->
        CHOOSE r \in rows :
            Cardinality({x \in rows : \/ key[x] < key[r]
                                      \/ key[x] = key[r] /\ x.pk < r.pk}) = i - 1]

\* Avg over the rows of value[row], a number in hundredths, and _round of
\* it to two digits: NULL over no row, else the mean rounded to the nearest
\* hundredth, ties to even.
Avg(rows, value) ==
    LET RECURSIVE sum(_)
        sum(S) == IF S = {} THEN 0
                  ELSE value[CHOOSE r \in S : TRUE] + sum(S \ {CHOOSE r \in S : TRUE})
        n == Cardinality(rows)
    IN IF rows = {} THEN Raised
       ELSE IF 2 * (sum(rows) % n) < n THEN Returned(sum(rows) \div n)
       ELSE IF 2 * (sum(rows) % n) > n THEN Returned((sum(rows) \div n) + 1)
       ELSE Returned((sum(rows) \div n) + ((sum(rows) \div n) % 2))

\* The body of a list endpoint: what it echoes, and the first limit of the
\* ordered results.
listing(echo, ordered, limit) ==
    [echo |-> echo,
     count |-> IF Len(ordered) < limit THEN Len(ordered) ELSE limit,
     results |-> [i \in 1..(IF Len(ordered) < limit THEN Len(ordered) ELSE limit)
                    |-> ordered[i]]]

\* GET /api/students/search
students_search(store, query_params) ==
    LET dept_id == _parse_int(query_params.department)
        hobby_id == _parse_int(query_params.hobby)
        gender == query_params.gender
        part_time_job == _parse_bool(query_params.part_time_job)
        stress_level == query_params.stress_level
        min_mark == _parse_float(query_params.min_college_mark)
        max_mark == _parse_float(query_params.max_college_mark)
        querySet ==
            {r \in select_related(store) :
               /\ dept_id.ok => r.department_id = dept_id.val
               /\ hobby_id.ok => r.hobby_id = hobby_id.val
               /\ gender \notin {None, << >>}
                     => str_casefold(ENUM_TEXT[r.gender]) = str_casefold(str_strip(gender))
               /\ part_time_job.ok
                     => \E m \in r.metrics : m.part_time_job = part_time_job.val
               /\ stress_level \notin {None, << >>}
                     => \E m \in r.metrics : ENUM_TEXT[m.stress_level] = stress_level
               /\ min_mark.ok => \E m \in r.metrics : m.college_mark >= min_mark.val
               /\ max_mark.ok => \E m \in r.metrics : m.college_mark <= max_mark.val}
        rows == order_by(querySet, [r \in querySet |-> 0])
    IN listing(
        [department |-> dept_id, hobby |-> hobby_id, gender |-> gender,
         part_time_job |-> part_time_job, stress_level |-> stress_level,
         min_college_mark |-> min_mark, max_college_mark |-> max_mark,
         limit |-> _limit(query_params.limit, 50, 500)],
        [i \in 1..Len(rows) |->
            [id |-> rows[i].pk, gender |-> rows[i].gender,
             department |-> rows[i].department__name, hobby |-> rows[i].hobby__name,
             height_cm |-> rows[i].height_cm, weight_kg |-> rows[i].weight_kg,
             college_mark |-> metrics_column(rows[i], "college_mark"),
             stress_level |-> metrics_column(rows[i], "stress_level"),
             part_time_job |-> metrics_column(rows[i], "part_time_job"),
             salary_expectation |-> metrics_column(rows[i], "salary_expectation"),
             daily_studying_time |-> metrics_column(rows[i], "daily_studying_time"),
             willingness_percent |-> metrics_column(rows[i], "willingness_percent")]],
        _limit(query_params.limit, 50, 500))

\* GET /api/analytics/departments/summary: one row for each Department by
\* name, over the Students of the department and the metrics joined to them.
departments_summary(store) ==
    LET names == sorted({d.name : d \in store.department})
        students(name) == {r \in select_related(store) : r.department__name = name}
        measured(name) == UNION {r.metrics : r \in students(name)}
    IN [count |-> Len(names),
        results |->
          [i \in 1..Len(names) |->
             [department_id |-> (CHOOSE d \in store.department : d.name = names[i]).id,
              department_name |-> names[i],
              student_count |-> Cardinality(students(names[i])),
              avg_college_mark |->
                  Avg(measured(names[i]),
                      [m \in measured(names[i]) |-> m.college_mark]),
              avg_salary_expectation |->
                  Avg(measured(names[i]),
                      [m \in measured(names[i]) |-> 100 * m.salary_expectation]),
              stress_distribution |->
                  [level \in {"Good", "Fair", "Bad"} |->
                     Cardinality({r \in students(names[i]) :
                                    \E m \in r.metrics : m.stress_level = level})]]]]

\* GET /api/analytics/parttime/impact: _agg(True) and _agg(False), each over
\* the Students whose metrics have that part_time_job.
parttime_impact(store) ==
    LET querySet(part_time) ==
            {r \in select_related(store) :
               \E m \in r.metrics : m.part_time_job = part_time}
        measured(part_time) == UNION {r.metrics : r \in querySet(part_time)}
        _agg(part_time) ==
            [student_count |-> Cardinality(querySet(part_time)),
             avg_college_mark |->
                 Avg(measured(part_time),
                     [m \in measured(part_time) |-> m.college_mark]),
             avg_salary_expectation |->
                 Avg(measured(part_time),
                     [m \in measured(part_time) |-> 100 * m.salary_expectation]),
             avg_willingness_percent |->
                 Avg(measured(part_time),
                     [m \in measured(part_time) |-> 100 * m.willingness_percent])]
    IN [with_part_time_job |-> _agg(TRUE), without_part_time_job |-> _agg(FALSE)]

\* GET /api/analytics/studytime/performance: the Students grouped by the
\* daily_studying_time of their metrics and the groups ordered by that
\* column, a text column: the NULL group of the Students without metrics
\* first, then the stored values in the order of str.
studytime_performance(store) ==
    LET rows == select_related(store)
        key(r) == IF r.metrics = {} THEN None
                  ELSE ENUM_TEXT[(CHOOSE m \in r.metrics : TRUE).daily_studying_time]
        groups == (IF \E r \in rows : r.metrics = {} THEN <<None>> ELSE << >>)
                  \o sorted({key(r) : r \in rows} \ {None})
        measured(group) == UNION {r.metrics : r \in {x \in rows : key(x) = group}}
    IN [count |-> Len(groups),
        results |->
          [i \in 1..Len(groups) |->
             [daily_studying_time |-> groups[i],
              student_count |-> Cardinality({r \in rows : key(r) = groups[i]}),
              avg_college_mark |->
                  Avg(measured(groups[i]),
                      [m \in measured(groups[i]) |-> m.college_mark]),
              avg_willingness_percent |->
                  Avg(measured(groups[i]),
                      [m \in measured(groups[i]) |-> 100 * m.willingness_percent])]]]

\* GET /api/analytics/risk
risk_list(store, query_params) ==
    LET stress_level == IF query_params.stress_level \in {None, << >>}
                        THEN <<"B","a","d">> ELSE query_params.stress_level
        max_mark == IF _parse_float(query_params.max_college_mark).ok
                    THEN _parse_float(query_params.max_college_mark).val ELSE 6000
        querySet ==
            {r \in select_related(store) :
               \E m \in r.metrics : /\ ENUM_TEXT[m.stress_level] = stress_level
                                    /\ m.college_mark <= max_mark}
        rows == order_by(querySet,
                         [r \in querySet |-> (CHOOSE m \in r.metrics : TRUE).college_mark])
    IN listing(
        [stress_level |-> stress_level, max_college_mark |-> max_mark,
         limit |-> _limit(query_params.limit, 20, 200)],
        [i \in 1..Len(rows) |->
            [id |-> rows[i].pk, gender |-> rows[i].gender,
             department |-> rows[i].department__name, hobby |-> rows[i].hobby__name,
             college_mark |-> metrics_column(rows[i], "college_mark"),
             stress_level |-> metrics_column(rows[i], "stress_level"),
             part_time_job |-> metrics_column(rows[i], "part_time_job")]],
        _limit(query_params.limit, 20, 200))

\* The comparison bmi >= twice / 2 of bmi_distribution, for twice / 2 one of
\* 18.5, 25.0 and 30.0, on the double the database computes for
\*   CAST(weight_kg AS float) / ((CAST(height_cm AS float) / 100.0)
\*                               * (CAST(height_cm AS float) / 100.0))
\* with heights from 50 to 250.  Each of the two divisions and the product
\* is rounded to the nearest double (53 significant bits, ties to even).
\* Naturals beyond 32 bits are tuples of digits in base 2^14, the least
\* significant first.  The quotient is not formed: the three bounds lie in
\* [16, 32), where doubles are 2^-48 apart and each bound has an even
\* significand, so the rounded quotient is >= bound exactly when the
\* quotient is >= bound - 2^-49.
bmi_gte(height_cm, weight_kg, twice) ==
    LET RECURSIVE carried(_, _), expand(_, _), rest(_, _), lexless(_, _)
        base == 16384
        rev(s) == [i \in 1..Len(s) |-> s[Len(s) + 1 - i]]
        at(s, i) == IF i \in 1..Len(s) THEN s[i] ELSE 0
        \* the digits of s + c, each below the base
        carried(s, c) ==
            IF s = << >> THEN (IF c = 0 THEN << >> ELSE <<c % base>> \o carried(<< >>, c \div base))
            ELSE <<(Head(s) + c) % base>> \o carried(Tail(s), (Head(s) + c) \div base)
        \* the product of two naturals of at most four digits
        mul(a, b) ==
            carried([n \in 1..8 |-> at(a, 1) * at(b, n) + at(a, 2) * at(b, n - 1)
                                    + at(a, 3) * at(b, n - 2) + at(a, 4) * at(b, n - 3)], 0)
        \* the first n digits of the fraction r / 100, the most significant
        \* first, and what is left of r after them
        expand(r, n) ==
            IF n = 0 THEN << >>
            ELSE <<(r * base) \div 100>> \o expand((r * base) % 100, n - 1)
        rest(r, n) == IF n = 0 THEN r ELSE rest((r * base) % 100, n - 1)
        lexless(a, b) ==
            IF a = << >> THEN FALSE
            ELSE IF Head(a) # Head(b) THEN Head(a) < Head(b)
            ELSE lexless(Tail(a), Tail(b))
        less(a, b) == lexless(rev([i \in 1..10 |-> at(a, i)]), rev([i \in 1..10 |-> at(b, i)]))
        \* height_cm / 100.0 = metres * 2^-k, its significand below 2^53
        k == 53 - (IF height_cm < 100 THEN 0 ELSE IF height_cm < 200 THEN 1 ELSE 2)
        scaled == height_cm * 2^(k - 42)
        left == rest(scaled % 100, 3)
        floor == rev(expand(scaled % 100, 3)) \o <<scaled \div 100>>
        metres == carried(floor, IF 2 * left > 100 \/ (2 * left = 100 /\ floor[1] % 2 = 1)
                                 THEN 1 ELSE 0)
        \* metres * metres = square * 2^(drop - 2k): the product has
        \* 98 + high bits, of which the first 53 are kept
        product == mul(metres, metres)
        high == IF product[8] < 128 THEN 7 ELSE IF product[8] < 256 THEN 8 ELSE 9
        e == high + 3
        drop == 42 + e
        up == /\ (product[4] \div 2^(e - 1)) % 2 = 1
              /\ \/ product[4] % 2^(e - 1) # 0
                 \/ \E i \in 1..3 : product[i] # 0
                 \/ (product[4] \div 2^e) % 2 = 1
        square == carried([i \in 1..4 |-> (product[i + 3] \div 2^e)
                                           + (at(product, i + 4) % 2^e) * 2^(14 - e)],
                          IF up THEN 1 ELSE 0)
    IN ~less(carried(<<0, 0, 0, 0, 0, 0, weight_kg * 2^(49 + 2 * k - drop - 84)>>, 0),
             mul(<<base - 1, base - 1, base - 1, 64 * twice - 1>>, square))

\* GET /api/analytics/bmi/distribution.  by is the parameter stripped and
\* lowered (str.lower is casefold_char on the characters of CODE_POINTS).
\* The rows are grouped by gender, by department__name, or, with no group
\* field, by values(): every column of Student, the primary key among them,
\* so that each Student is a group of its own, answered in key order.  A
\* result carries the group it is for (None when the view names none), the
\* total and the four buckets; avg_bmi is left out.
bmi_distribution(store, query_params) ==
    LET by == str_casefold(str_strip(IF query_params.by = None THEN << >>
                                     ELSE query_params.by))
        rows == select_related(store)
        key(r) == IF by = <<"g","e","n","d","e","r">> THEN ENUM_TEXT[r.gender] ELSE r.department__name
        groups == sorted({key(r) : r \in rows})
        alone == order_by(rows, [r \in rows |-> 0])
        bmi_lt(r, twice) == ~bmi_gte(r.height_cm, r.weight_kg, twice)
        aggregate(group, members) ==
            [group |-> group,
             total |-> Cardinality(members),
             underweight |-> Cardinality({r \in members : bmi_lt(r, 37)}),
             normal |-> Cardinality({r \in members :
                                       ~bmi_lt(r, 37) /\ bmi_lt(r, 50)}),
             overweight |-> Cardinality({r \in members :
                                           ~bmi_lt(r, 50) /\ bmi_lt(r, 60)}),
             obese |-> Cardinality({r \in members : ~bmi_lt(r, 60)})]
    IN IF by \notin {<< >>, <<"g","e","n","d","e","r">>, <<"d","e","p","a","r","t","m","e","n","t">>}
       THEN [status |-> 400, body |-> [detail |-> "Invalid by"]]
       ELSE IF by = << >>
       THEN [status |-> 200,
             body |-> [group_by |-> None, count |-> Len(alone),
                       results |-> [i \in 1..Len(alone) |->
                                      aggregate(None, {alone[i]})]]]
       ELSE [status |-> 200,
             body |-> [group_by |-> by, count |-> Len(groups),
                       results |-> [i \in 1..Len(groups) |->
                                      aggregate(groups[i],
                                                {r \in rows : key(r) = groups[i]})]]]

\* python manage.py seed_admin (seed_admin.py): the three settings are
\* required in turn, a missing or blank one raising CommandError; a user
\* with the username makes the run return; otherwise create_superuser adds
\* the user with is_staff and is_superuser.  A user is its username, email
\* and the two flags.
seed_admin(users, settings) ==
    LET require_setting(name) ==
            IF settings[name] = None \/ str_strip(settings[name]) = << >>
            THEN Raised
            ELSE Returned(settings[name])
        names == <<"ADMIN_USERNAME", "ADMIN_PASSWORD", "ADMIN_EMAIL">>
        missing == SelectSeq(names, LAMBDA name : ~require_setting(name).ok)
        username == require_setting("ADMIN_USERNAME").val
        email == require_setting("ADMIN_EMAIL").val
    IN IF missing # << >>
       THEN [users |-> users, status |-> "CommandError", required |-> missing[1]]
       ELSE IF \E u \in users : u.username = username
       THEN [users |-> users, status |-> "already exists", required |-> "none"]
       ELSE [users |-> users \cup {[username |-> username, email |-> email,
                                    is_staff |-> TRUE, is_superuser |-> TRUE]},
             status |-> "created", required |-> "none"]

\* ------------------------------------------------------------------------
\* Requests
\* ------------------------------------------------------------------------
\* The nested metrics of the payload of test_serializers.py, minutes sent
\* by the client included.
METRICS_PAYLOAD ==
    [certification_course |-> TRUE, mark_10th |-> 8000, mark_12th |-> 8500,
     college_mark |-> 7800, daily_studying_time |-> "0-30m",
     prefer_to_study_in |-> "Morning", salary_expectation |-> 50000,
     likes_degree |-> TRUE, part_time_job |-> FALSE, financial_status |-> "Awful",
     willingness_percent |-> 70, social_media_video |-> "0m",
     travelling_time |-> "0-30m", stress_level |-> "Good",
     study_minutes |-> 999, social_minutes |-> 999, travel_minutes |-> 999]

StudentPayload(dept, hob) ==
    [gender |-> "Male", department |-> dept, hobby |-> hob,
     height_cm |-> 170, weight_kg |-> 69, metrics |-> METRICS_PAYLOAD]

\* POST bodies: the valid payload for every key of a department and hobby, the
\* payload without metrics, with a height out of range, and with a mark out
\* of range.
CreatePayloads ==
    {StudentPayload(k, k) : k \in 1..MaxId}
    \cup {[f \in StudentFields |-> StudentPayload(1, 1)[f]],
          [StudentPayload(1, 1) EXCEPT !.height_cm = 300],
          [StudentPayload(1, 1) EXCEPT !.metrics.college_mark = 15000]}

\* POST bodies that give department and hobby as JSON strings: the names the
\* loader stores, a name no row has, and the numeral of a key.
TextPayloads ==
    {[StudentPayload(0, 0) EXCEPT !.department = <<"c","s","e">>, !.hobby = <<"r","e","a","d","i","n","g">>],
     [StudentPayload(0, 0) EXCEPT !.department = <<"p","h","y","s","i","c","s">>, !.hobby = <<"r","e","a","d","i","n","g">>],
     [StudentPayload(0, 0) EXCEPT !.department = <<"1">>, !.hobby = <<"1">>]}

\* The INSERT of a create that the database may refuse.
Faults == {"none", "student", "metrics"}

\* PUT and PATCH bodies: a PATCH of one enum together with client minutes,
\* a PATCH with a height out of range, a PATCH with a stress level that is
\* no choice, and the valid payload as a PUT.
UpdateRequests ==
    {[partial |-> TRUE,
      data |-> [metrics |-> [daily_studying_time |-> "30-60m",
                             study_minutes |-> 999, social_minutes |-> 999]]],
     [partial |-> TRUE, data |-> [height_cm |-> 10]],
     [partial |-> TRUE, data |-> [metrics |-> [stress_level |-> "Fair"]]]}
    \cup {[partial |-> FALSE, data |-> StudentPayload(k, k)] : k \in 1..MaxId}

\* The names sent to the Department and Hobby endpoints: a name the loader
\* stores too, a name with spaces around it, one character, spaces only,
\* and one character more than NAME_MAX_LEN.
NameTexts ==
    {<<"r","e","a","d","i","n","g">>, <<" ","A","r","t"," ">>, <<"A">>, <<" "," ">>, [i \in 1..(NAME_MAX_LEN + 1) |-> "x"]}

\* A request handler with no POST of a name in hand.
Idle == [table |-> "none", name |-> << >>]

\* The body _create_student_api of test_api_analytics.py posts.
Profile(gender, dept, hob, height_cm, weight_kg, college_mark, stress_level, part_time_job, daily_studying_time) ==
    [gender |-> gender, department |-> dept, hobby |-> hob,
     height_cm |-> height_cm, weight_kg |-> weight_kg,
     metrics |-> [certification_course |-> FALSE, mark_10th |-> 7000,
                  mark_12th |-> 7000, college_mark |-> college_mark,
                  daily_studying_time |-> daily_studying_time,
                  prefer_to_study_in |-> "Morning", salary_expectation |-> 50000,
                  likes_degree |-> TRUE, part_time_job |-> part_time_job,
                  financial_status |-> "Awful", willingness_percent |-> 60,
                  social_media_video |-> "0m", travelling_time |-> "0-30m",
                  stress_level |-> stress_level]]

\* The three students of AnalyticsApiTests.setUp, and after them a student
\* with a mark of 60.0 whose weight is 25 times the square of her height in
\* metres, one with the mark of the first whose weight is 18.5 times that
\* square, and one of 40 kg to the square metre.
PROFILES ==
    << Profile("Male", 1, 1, 170, 70, 4500, "Bad", TRUE, "0-30m"),
       Profile("Female", 1, 2, 160, 50, 8800, "Good", FALSE, "30-60m"),
       Profile("Male", 2, 1, 180, 90, 5000, "Bad", FALSE, "0-30m"),
       Profile("Female", 2, 2, 160, 64, 6000, "Bad", FALSE, "30-60m"),
       Profile("Other", 1, 2, 200, 74, 4500, "Bad", TRUE, "1-2h"),
       Profile("Other", 2, 1, 150, 90, 3000, "Awful", FALSE, "0-30m") >>

\* The most students a fixture posts.
MaxStudents == 3

\* The departments and hobbies of AnalyticsApiTests.setUp.
SetUp ==
    name_create(
        name_create(
            name_create(
                name_create(EmptyStore, "department", <<"C","S","E">>).store,
                "department", <<"B","C","A">>).store,
            "hobby", <<"R","e","a","d","i","n","g">>).store,
        "hobby", <<"G","a","m","i","n","g">>).store

\* The store after POST /api/students of the profiles picks names, in order.
RECURSIVE posted(_, _)
posted(store, picks) ==
    IF picks = << >> THEN store
    ELSE posted(student_post(store, PROFILES[Head(picks)], "none").store, Tail(picks))

\* The stores the analytics are asked about: setUp, up to MaxStudents
\* different profiles posted, and then, or not, a load of the file whose one
\* line fails in a metrics column.
FIXTURES ==
    {IF loaded THEN handle(posted(SetUp, picks), 7, FALSE, TRUE).store
     ELSE posted(SetUp, picks) :
        picks \in {p \in UNION {[1..n -> DOMAIN PROFILES] : n \in 0..MaxStudents} :
                     \A i, j \in DOMAIN p : p[i] = p[j] => i = j},
        loaded \in BOOLEAN}

\* request.query_params of a request that gives no parameter.
NoParams ==
    [department |-> None, hobby |-> None, gender |-> None, part_time_job |-> None,
     stress_level |-> None, min_college_mark |-> None, max_college_mark |-> None,
     limit |-> None, by |-> None]

\* The query strings of the requests, by endpoint.  students_search: none,
\* one parameter at a time (values that select, an empty value, values no
\* parser reads), the query of test_students_search_works_and_filters, and
\* four filters at once.
QUERIES ==
    [students_search |->
        {NoParams,
         [NoParams EXCEPT !.department = <<"1">>, !.gender = <<"F","e","m","a","l","e">>, !.limit = <<"5","0">>],
         [NoParams EXCEPT !.stress_level = <<"B","a","d">>, !.min_college_mark = <<"4","5">>,
                          !.max_college_mark = <<"5","0",".","5">>, !.part_time_job = <<"f">>]}
        \cup {[NoParams EXCEPT !.department = v] :
                 v \in {<<"1">>, <<"2">>, <<"9">>, <<" ","1">>, <<"1",".","5">>, << >>}}
        \cup {[NoParams EXCEPT !.hobby = v] : v \in {<<"2">>, <<"x">>, << >>}}
        \cup {[NoParams EXCEPT !.gender = v] : v \in {<<"f","e","m","a","l","e">>, <<" ","M","a","l","e"," ">>, <<"X">>, << >>}}
        \cup {[NoParams EXCEPT !.part_time_job = v] :
                 v \in {<<"t","r","u","e">>, <<" ","N","o"," ">>, <<"Y">>, <<"0">>, <<"t">>, <<"m","a","y","b","e">>, << >>}}
        \cup {[NoParams EXCEPT !.stress_level = v] : v \in {<<"B","a","d">>, <<"b","a","d">>, <<"G","o","o","d">>, << >>}}
        \cup {[NoParams EXCEPT !.min_college_mark = v] :
                 v \in {<<"5","0">>, <<"4","5",".","5">>, <<"a","b","c">>, <<" ">>, << >>}}
        \cup {[NoParams EXCEPT !.max_college_mark = v] :
                 v \in {<<"5","0">>, <<"6","0",".","0">>, <<"4"," ","5">>, << >>}}
        \cup {[NoParams EXCEPT !.limit = v] :
                 v \in {<<"1">>, <<"2">>, <<"5","0","0">>, <<"5","0","1">>, <<"0">>, <<"-","3">>, <<"2",".","5">>, <<"x">>, <<" ">>, << >>}},
     risk_list |->
        {NoParams,
         [NoParams EXCEPT !.stress_level = <<"B","a","d">>, !.max_college_mark = <<"5","0">>,
                          !.limit = <<"2","0">>]}
        \cup {[NoParams EXCEPT !.stress_level = v] : v \in {<<"G","o","o","d">>, <<"b","a","d">>, << >>}}
        \cup {[NoParams EXCEPT !.max_college_mark = v] :
                 v \in {<<"4","5">>, <<"8","8">>, <<"x">>, <<" ">>, << >>}}
        \cup {[NoParams EXCEPT !.limit = v] :
                 v \in {<<"1">>, <<"2","0","0">>, <<"2","0","1">>, <<"0">>, <<"9","9","9">>, <<"m","a","n","y">>, << >>}},
     bmi_distribution |->
        {[NoParams EXCEPT !.by = v] :
            v \in {None, << >>, <<" ">>, <<"g","e","n","d","e","r">>, <<"d","e","p","a","r","t","m","e","n","t">>, <<" ","G","e","n","d","e","r"," ">>, <<"D","E","P","A","R","T","M","E","N","T">>,
                   <<"h","o","b","b","y">>, <<"g","e","n","d","e","r","s">>}}]

\* No table holds a primary key above MaxId.
WithinBounds(store) ==
    \A t \in Tables : last_pk(store[t]) <= MaxId

\* ------------------------------------------------------------------------
\* State machine
\* ------------------------------------------------------------------------
NoResponse ==
    [op |-> "none", status |-> "none"]

Init ==
    /\ department = {}
    /\ hobby = {}
    /\ student = {}
    /\ metrics = {}
    /\ can_return_rows \in BOOLEAN
    /\ response = NoResponse
    /\ in_flight = [w \in 1..MaxWorkers |-> Idle]
    /\ auth_user = {}

\* The tables become those of store.
Commit(store) ==
    /\ WithinBounds(store)
    /\ department' = store.department
    /\ hobby' = store.hobby
    /\ student' = store.student
    /\ metrics' = store.metrics

\* What a run of load_students leaves to see: its arguments, how it ended,
\* and the counts and the line numbers of errors of its summary
\* (lines 277-290).
load_report(outcome, path, truncate) ==
    [op |-> "load_students",
     status |-> outcome.status,
     csv_path |-> path,
     truncate |-> truncate,
     rows_read |-> IF outcome.status \in {"file_not_found", "missing_columns"}
                   THEN 0 ELSE Len(CSV_FILES[path].rows),
     students_created |-> outcome.students_created,
     metrics_created |-> outcome.metrics_created,
     errors |-> outcome.errors]

\* python manage.py load_students <csv_path> [--truncate]
Load(paths) ==
    \E path \in paths, truncate \in BOOLEAN :
        \E outcome \in {handle(Store, path, truncate, can_return_rows)} :
           /\ Commit(outcome.store)
           /\ response' = load_report(outcome, path, truncate)
           /\ UNCHANGED <<can_return_rows, in_flight, auth_user>>

\* The loads on the files whose lines name their Department.
LoadStudents == Load({f \in CsvFiles : CSV_FILES[f].rows # <<5>>})

\* The answer of a view becomes the response and its store the tables.
Answer(op, reply) ==
    \E answered \in {reply} :
        /\ Commit(answered.store)
        /\ response' = [op |-> op, status |-> answered.status, pk |-> answered.pk,
                        errors |-> answered.errors]
        /\ UNCHANGED <<can_return_rows, in_flight, auth_user>>

\* POST /api/students
StudentCreate ==
    \E data \in CreatePayloads, fault \in Faults :
        Answer("POST students", student_post(Store, data, fault))

\* POST /api/students with department and hobby as JSON strings
StudentCreateText ==
    \E data \in TextPayloads :
        Answer("POST students", student_post_text(Store, data, "none"))

\* PUT /api/students/<pk> and PATCH /api/students/<pk>
StudentUpdate ==
    \E pk \in 1..MaxId, request \in UpdateRequests :
        Answer(IF request.partial THEN "PATCH students" ELSE "PUT students",
               student_put(Store, pk, request.data, request.partial))

\* DELETE /api/students/<pk>
StudentDestroy ==
    \E pk \in 1..MaxId :
        Answer("DELETE students", student_delete(Store, pk))

\* DELETE /api/departments/<pk>
DepartmentDestroy ==
    \E pk \in 1..MaxId :
        Answer("DELETE departments", destroy(Store, "department", pk))

\* DELETE /api/hobbies/<pk>
HobbyDestroy ==
    \E pk \in 1..MaxId :
        Answer("DELETE hobbies", destroy(Store, "hobby", pk))

\* POST /api/departments and POST /api/hobbies, up to the save: is_valid.
\* A body in error is answered 400; a valid one goes on to its INSERT.
NameReceive ==
    \E w \in 1..MaxWorkers, table \in {"department", "hobby"}, value \in NameTexts :
        /\ in_flight[w] = Idle
        /\ IF validate_name(value).ok
           THEN /\ in_flight' = [in_flight EXCEPT ![w] =
                                    [table |-> table, name |-> validate_name(value).val]]
                /\ UNCHANGED <<department, hobby, student, metrics, can_return_rows,
                               response, auth_user>>
           ELSE /\ response' = [op |-> "POST " \o table, status |-> 400, pk |-> 0,
                                errors |-> {"name"}]
                /\ UNCHANGED <<department, hobby, student, metrics, can_return_rows,
                               in_flight, auth_user>>

\* POST /api/departments and POST /api/hobbies, the save and the answer.
NameCreate ==
    \E w \in 1..MaxWorkers :
        /\ in_flight[w] # Idle
        /\ \E answered \in {name_create(Store, in_flight[w].table, in_flight[w].name)} :
              /\ Commit(answered.store)
              /\ response' = [op |-> "POST " \o in_flight[w].table,
                              status |-> answered.status, pk |-> answered.pk,
                              errors |-> answered.errors]
        /\ in_flight' = [in_flight EXCEPT ![w] = Idle]
        /\ UNCHANGED <<can_return_rows, auth_user>>

\* PUT and PATCH /api/departments/<pk> and /api/hobbies/<pk>
NameUpdate ==
    \E table \in {"department", "hobby"}, pk \in 1..MaxId, value \in NameTexts :
        Answer("PUT " \o table, name_update(Store, table, pk, value))

\* A view that deletes the Students and their metrics before it answers.
Read_after_delete(endpoint, query_params, reply) ==
    /\ response = NoResponse
    /\ \E answered \in {reply} :
          response' = [op |-> endpoint, status |-> answered.status,
                       query |-> query_params, body |-> answered.body]
    /\ student' = {}
    /\ metrics' = {}
    /\ UNCHANGED <<department, hobby, can_return_rows, in_flight, auth_user>>

\* The analytics views read the store and answer: the endpoint, the query,
\* the status and the body become the response.  Each store is asked one
\* request, as a test method of AnalyticsApiTests asks its own.
Read(endpoint, query_params, reply) ==
    /\ response = NoResponse
    /\ \E answered \in {reply} :
          response' = [op |-> endpoint, status |-> answered.status,
                       query |-> query_params, body |-> answered.body]
    /\ UNCHANGED <<department, hobby, student, metrics, can_return_rows, in_flight,
                   auth_user>>

\* GET /api/students/search
StudentsSearch ==
    \E query_params \in QUERIES.students_search :
        Read("students_search", query_params,
             [status |-> 200, body |-> students_search(Store, query_params)])

\* GET /api/analytics/departments/summary
DepartmentsSummary ==
    Read("departments_summary", NoParams,
         [status |-> 200, body |-> departments_summary(Store)])

\* GET /api/analytics/parttime/impact
ParttimeImpact ==
    Read("parttime_impact", NoParams, [status |-> 200, body |-> parttime_impact(Store)])

\* GET /api/analytics/studytime/performance
StudytimePerformance ==
    Read("studytime_performance", NoParams,
         [status |-> 200, body |-> studytime_performance(Store)])

\* GET /api/analytics/risk
RiskList ==
    \E query_params \in QUERIES.risk_list :
        Read("risk_list", query_params,
             [status |-> 200, body |-> risk_list(Store, query_params)])

\* GET /api/analytics/bmi/distribution
BmiDistribution ==
    \E query_params \in QUERIES.bmi_distribution :
        Read("bmi_distribution", query_params, bmi_distribution(Store, query_params))

Next ==
    \/ LoadStudents
    \/ StudentCreate
    \/ StudentCreateText
    \/ StudentUpdate
    \/ StudentDestroy
    \/ DepartmentDestroy
    \/ HobbyDestroy

Spec == Init /\ [][Next]_vars

\* The writers of Department and Hobby rows: the loader, on the file whose
\* line has a blank Department, and the endpoints of the two models.
NextNames ==
    \/ Load({f \in CsvFiles : CSV_FILES[f].rows = <<5>>})
    \/ NameReceive
    \/ NameCreate
    \/ NameUpdate

SpecNames == Init /\ [][NextNames]_vars

\* The analytics endpoints over the stores of FIXTURES.
InitAnalytics ==
    /\ \E store \in FIXTURES :
          /\ department = store.department
          /\ hobby = store.hobby
          /\ student = store.student
          /\ metrics = store.metrics
    /\ can_return_rows = TRUE
    /\ response = NoResponse
    /\ in_flight = [w \in 1..MaxWorkers |-> Idle]
    /\ auth_user = {}

NextAnalytics ==
    \/ StudentsSearch
    \/ DepartmentsSummary
    \/ ParttimeImpact
    \/ StudytimePerformance
    \/ RiskList
    \/ BmiDistribution

SpecAnalytics == InitAnalytics /\ [][NextAnalytics]_vars

\* python manage.py seed_admin, with the settings of the deployment.
SeedAdmin ==
    \E username \in {None, <<" ">>, <<"a","d","m","i","n">>, <<"r","o","o","t">>},
       password \in {None, << >>, <<"a","d","m","i","n","1","2","3">>},
       email \in {None, <<" ">>, <<"a","d","m","i","n","@","e","x","a","m","p","l","e",".","c","o","m">>} :
        \E ran \in {seed_admin(auth_user, [ADMIN_USERNAME |-> username,
                                           ADMIN_PASSWORD |-> password,
                                           ADMIN_EMAIL |-> email])} :
           /\ auth_user' = ran.users
           /\ response' = [op |-> "seed_admin", status |-> ran.status,
                           required |-> ran.required,
                           settings |-> [ADMIN_USERNAME |-> username,
                                         ADMIN_PASSWORD |-> password,
                                         ADMIN_EMAIL |-> email]]
           /\ UNCHANGED <<department, hobby, student, metrics, can_return_rows, in_flight>>

\* Runs of seed_admin on a database that holds any users with distinct
\* usernames, privileged or not.
SpecSeed ==
    /\ department = {} /\ hobby = {} /\ student = {} /\ metrics = {}
    /\ can_return_rows = TRUE
    /\ response = NoResponse
    /\ in_flight = [w \in 1..MaxWorkers |-> Idle]
    /\ auth_user \in
          {users \in SUBSET [username : {<<"a","d","m","i","n">>, <<"r","o","o","t">>, <<"g","u","e","s","t">>},
                             email : {<<"u","s","e","r","@","e","x","a","m","p","l","e",".","c","o","m">>},
                             is_staff : BOOLEAN, is_superuser : BOOLEAN] :
              \A u, v \in users : u.username = v.username => u = v}
    /\ [][SeedAdmin]_vars

\* ------------------------------------------------------------------------
\* Properties
\* ------------------------------------------------------------------------
\* C1: in every reachable state every Student has exactly one StudentMetrics,
\* every StudentMetrics belongs to a Student of the table, and the two
\* tables hold the same number of rows.
C1_OneMetricsPerStudent ==
    /\ \A s \in student : Cardinality({m \in metrics : m.student = s.id}) = 1
    /\ \A m \in metrics : \E s \in student : s.id = m.student
    /\ Cardinality(student) = Cardinality(metrics)

\* C2: a POST of a student is all-or-nothing.  Answered 201, it has added
\* exactly one Student, with the id of the answer, and exactly one
\* StudentMetrics linked to it, and nothing else; answered anything else, it
\* has left the four tables as they were.  A payload without metrics is
\* answered 400 with an error on metrics, and a POST one of whose INSERTs
\* fails is never answered 201.
C2_CreateAllOrNothing ==
    /\ [][response'.op = "POST students" =>
             IF response'.status = 201
             THEN /\ \E s \in student' \ student :
                       /\ s.id = response'.pk
                       /\ student' = student \cup {s}
                       /\ \E m \in metrics' \ metrics :
                             /\ m.student = s.id
                             /\ metrics' = metrics \cup {m}
                  /\ UNCHANGED <<department, hobby>>
             ELSE UNCHANGED <<department, hobby, student, metrics>>
         ]_vars
    /\ [](\A data \in CreatePayloads, fault \in Faults :
             LET reply == student_post(Store, data, fault)
             IN /\ "metrics" \notin DOMAIN data =>
                      reply.status = 400 /\ "metrics" \in reply.errors
                /\ fault # "none" => reply.status # 201
                /\ reply.status # 201 => reply.store = Store)

\* A POST whose INSERT failed (500) on a store that holds students.
C2_Witness ==
    /\ response.op = "POST students"
    /\ response.status = 500
    /\ student # {}
    /\ Cardinality(student) = Cardinality(metrics)

\* C3: every StudentMetrics row holds, as study_minutes, social_minutes and
\* travel_minutes, the minutes that DAILY_STUDY_TIME_MAP, MEDIA_VIDEO_TIME_MAP
\* and TRAVELING_TIME_MAP pair with its daily_studying_time,
\* social_media_video and travelling_time, and never the 999 a client sends.
C3_MinutesFollowEnums ==
    \A m \in metrics :
        /\ \E k \in DOMAIN DAILY_STUDY_TIME_MAP :
              DAILY_STUDY_TIME_MAP[k] = <<m.daily_studying_time, m.study_minutes>>
        /\ \E k \in DOMAIN MEDIA_VIDEO_TIME_MAP :
              MEDIA_VIDEO_TIME_MAP[k] = <<m.social_media_video, m.social_minutes>>
        /\ \E k \in DOMAIN TRAVELING_TIME_MAP :
              TRAVELING_TIME_MAP[k] = <<m.travelling_time, m.travel_minutes>>
        /\ 999 \notin {m.study_minutes, m.social_minutes, m.travel_minutes}

\* A PATCH that sent daily_studying_time "30-60m" with study_minutes 999 was
\* answered 200 and the row holds 45.
C3_Witness ==
    /\ response.op = "PATCH students"
    /\ response.status = 200
    /\ \E m \in metrics :
          /\ m.student = response.pk
          /\ m.daily_studying_time = "30-60m"
          /\ m.study_minutes = 45

\* C4: a DELETE of a Department or Hobby that a Student refers to is
\* answered 409 and leaves the four tables as they were; a DELETE of one
\* that no Student refers to is answered 204 and removes that row and
\* nothing else.
C4_ProtectedDelete ==
    [][\A table \in {"department", "hobby"} :
          response'.op = (IF table = "department" THEN "DELETE departments"
                          ELSE "DELETE hobbies") =>
             LET target == {r \in Store[table] : r.id = response'.pk}
             IN IF target = {}
                THEN response'.status = 404 /\ Store' = Store
                ELSE IF \E s \in student : s[table] = response'.pk
                THEN response'.status = 409 /\ Store' = Store
                ELSE /\ response'.status = 204
                     /\ Store'[table] = Store[table] \ target
                     /\ \A other \in Tables \ {table} : Store'[other] = Store[other]
      ]_vars

\* A DELETE of a Department was answered 409 and a Student refers to it.
C4_Witness ==
    /\ response.op = "DELETE departments"
    /\ response.status = 409
    /\ \E d \in department : d.id = response.pk
    /\ \E s \in student : s.department = response.pk

\* C5: a DELETE of a Student of the table is answered 204 and removes that
\* Student and the StudentMetrics linked to it, and nothing else.
C5_StudentDeleteFrame ==
    [][(/\ response'.op = "DELETE students"
        /\ \E s \in student : s.id = response'.pk) =>
          /\ response'.status = 204
          /\ student' = {s \in student : s.id # response'.pk}
          /\ metrics' = {m \in metrics : m.student # response'.pk}
          /\ UNCHANGED <<department, hobby>>
      ]_vars

\* A DELETE of a Student was answered 204 and another Student, with its
\* StudentMetrics, is still there.
C5_Witness ==
    /\ response.op = "DELETE students"
    /\ response.status = 204
    /\ \E s \in student : \E m \in metrics : m.student = s.id
    /\ \A s \in student : s.id # response.pk
    /\ \A m \in metrics : m.student # response.pk

\* C6: after a load, the errors are the lines of the data rows that fail in
\* some column, one each, and the Students and the StudentMetrics inserted
\* are as many as the data rows without an error.
C6_FailedRowContributesNothing ==
    (response.op = "load_students" /\ response.status = "loaded") =>
        LET parsed == FILES_READ[response.csv_path].parsed
            failing == {i \in DOMAIN parsed : ~(parsed[i].student.ok /\ parsed[i].metrics.ok)}
        IN /\ Len(response.errors) = Cardinality(failing)
           /\ {response.errors[k] : k \in DOMAIN response.errors} = {i + 1 : i \in failing}
           /\ response.students_created = Len(parsed) - Cardinality(failing)
           /\ response.metrics_created = Len(parsed) - Cardinality(failing)

\* C7: a load that ends in a fatal error (no such file, a required column
\* missing, every row failed, no primary keys from the bulk insert) leaves
\* the four tables as they were, with --truncate too; a file whose header
\* lacks a required column ends so with no row looked at.
C7_FatalLoadChangesNothing ==
    [][response'.op = "load_students" =>
          /\ response'.status \in {"file_not_found", "missing_columns",
                                   "all_rows_failed", "no_pks"} =>
                UNCHANGED <<department, hobby, student, metrics>>
          /\ (/\ CSV_FILES[response'.csv_path].exists
              /\ \E i \in DOMAIN required :
                    required[i] \notin HEADERS_NORMALIZED[CSV_FILES[response'.csv_path].header]) =>
                /\ response'.status = "missing_columns"
                /\ response'.errors = << >>
                /\ response'.rows_read = 0
      ]_vars

\* A load with --truncate ended with every row failed and the tables still
\* hold rows.
C7_Witness ==
    /\ response.op = "load_students"
    /\ response.status = "all_rows_failed"
    /\ response.truncate
    /\ student # {} /\ metrics # {} /\ department # {} /\ hobby # {}

\* C8: a load of a file with the required header none of whose data rows
\* parses (there is none, or each fails in some column) ends in an error
\* and leaves the four tables as they were.
C8_NoRowParsedIsAnError ==
    [][(/\ response'.op = "load_students"
        /\ response'.status \notin {"file_not_found", "missing_columns"}
        /\ \A i \in DOMAIN FILES_READ[response'.csv_path].parsed :
              LET row == FILES_READ[response'.csv_path].parsed[i]
              IN ~(row.student.ok /\ row.metrics.ok)) =>
          /\ response'.status \in {"all_rows_failed", "no_pks"}
          /\ UNCHANGED <<department, hobby, student, metrics>>
      ]_vars

\* C9: after a load with --truncate that has run to its end, the tables
\* hold what the file gives and nothing else: the Departments and Hobbies
\* are those the file names, the Students and StudentMetrics are those the
\* run created, and the store is the one the same load leaves on empty
\* tables.
C9_TruncateLoadLeavesOnlyTheFile ==
    (/\ response.op = "load_students"
     /\ response.truncate
     /\ response.status \in {"loaded", "empty"}) =>
        LET rows == CSV_FILES[response.csv_path].rows
            cells(column) ==
                {normalize_str(DictReader(HEADER_FULL, CSV_ROWS[rows[i]])[column])
                    : i \in DOMAIN rows}
        IN /\ {d.name : d \in department} = cells(<<"D","e","p","a","r","t","m","e","n","t">>)
           /\ {h.name : h \in hobby} = cells(<<"h","o","b","b","i","e","s">>)
           /\ Cardinality(student) = response.students_created
           /\ Cardinality(metrics) = response.metrics_created
           /\ \A s \in student : /\ \E d \in department : d.id = s.department
                                 /\ \E h \in hobby : h.id = s.hobby
           /\ Store = handle(EmptyStore, response.csv_path, TRUE, can_return_rows).store

\* A load with --truncate of the file of the one line of department EEE and
\* hobby Gaming has run to its end, and the Department and the Hobby of the
\* store are those two alone.
C9_Witness ==
    /\ response.op = "load_students"
    /\ response.truncate
    /\ response.status = "loaded"
    /\ CSV_FILES[response.csv_path].rows = <<2>>
    /\ Cardinality(department) = 1 /\ Cardinality(hobby) = 1
    /\ Cardinality(student) = 1 /\ Cardinality(metrics) = 1

\* C10: after a load, for each data row that parses, a Department whose name
\* is the Department cell as the file writes it and a Hobby whose name is
\* the hobbies cell as the file writes it are stored, and a Student refers
\* to both.
C10_NamesStoredAsWritten ==
    (response.op = "load_students" /\ response.status = "loaded") =>
        LET rows == CSV_FILES[response.csv_path].rows
            parsed == FILES_READ[response.csv_path].parsed
        IN \A i \in DOMAIN rows :
              (parsed[i].student.ok /\ parsed[i].metrics.ok) =>
                 LET raw == DictReader(HEADER_FULL, CSV_ROWS[rows[i]])
                 IN \E d \in department, h \in hobby :
                       /\ d.name = raw[<<"D","e","p","a","r","t","m","e","n","t">>]
                       /\ h.name = raw[<<"h","o","b","b","i","e","s">>]
                       /\ \E s \in student : s.department = d.id /\ s.hobby = h.id

\* C11: a POST of a student whose department and hobby are given by name is
\* answered 201 and creates the Student, the name of a stored row being
\* resolved to it and a name no row has being created first.
C11_RelatedByName ==
    \A data \in TextPayloads :
        /\ \E d \in department : d.name = data.department
        /\ \E h \in hobby : h.name = data.hobby
        => student_post_text(Store, data, "none").status = 201

\* C12: whatever the Department and Hobby endpoints (POST, PUT, PATCH) and
\* load_students have written, no two Departments and no two Hobbies share
\* a name, and every stored name is its own trimmed form and has between
\* NAME_MIN_LEN and NAME_MAX_LEN characters.
C12_StoredNamesValid ==
    \A table \in {"department", "hobby"} :
        \A r \in Store[table] :
            /\ \A q \in Store[table] : q.name = r.name => q = r
            /\ r.name = str_strip(r.name)
            /\ NAME_MIN_LEN <= Len(r.name)
            /\ Len(r.name) <= NAME_MAX_LEN

\* C13: when a creator of a Department or Hobby name that another writer
\* creates too is answered, exactly one row has the name and the answer is
\* not a server error.
C13_RacingCreatorsSucceed ==
    [][\A w \in 1..MaxWorkers :
          in_flight[w] # Idle /\ in_flight'[w] = Idle
              => /\ Cardinality({r \in Store'[in_flight[w].table] :
                                   r.name = in_flight[w].name}) = 1
                 /\ response'.status # 500]_vars

C15_RiskListOrderedAndBounded ==
    response.op = "risk_list" =>
        LET q == response.query
            given(v) == v # None /\ v # << >>
            level == IF given(q.stress_level) THEN q.stress_level ELSE <<"B","a","d">>
            threshold == IF given(q.max_college_mark) /\ py_float(q.max_college_mark).ok
                         THEN py_float(q.max_college_mark).val ELSE 6000
            asked == IF given(q.limit) /\ py_int(q.limit).ok
                     THEN py_int(q.limit).val ELSE 20
            limit == IF asked < 1 THEN 1 ELSE IF asked > 200 THEN 200 ELSE asked
            risky == {m \in metrics : /\ \E s \in student : s.id = m.student
                                      /\ ENUM_TEXT[m.stress_level] = level
                                      /\ m.college_mark <= threshold}
            before(m) == {x \in risky : \/ x.college_mark < m.college_mark
                                        \/ /\ x.college_mark = m.college_mark
                                           /\ x.student < m.student}
        IN /\ response.body.count = Len(response.body.results)
           /\ response.body.count = IF Cardinality(risky) < limit
                                    THEN Cardinality(risky) ELSE limit
           /\ \A i \in 1..response.body.count :
                 \E m \in risky :
                    /\ Cardinality(before(m)) = i - 1
                    /\ response.body.results[i].id = m.student
                    /\ response.body.results[i].college_mark = m.college_mark

\* The default risk list of test_risk_list_default_finds_bad_stress_low_marks
\* on the three students of setUp, the student with mark 50 posted before the
\* one with mark 45: the marks 45 and 50 are listed in that order, and the
\* student with mark 88 and stress Good is not.
C15_Witness ==
    /\ response.op = "risk_list"
    /\ response.query = NoParams
    /\ Cardinality(student) = 3
    /\ \E m \in metrics : m.college_mark = 8800 /\ m.stress_level = "Good"
    /\ response.body.count = 2
    /\ response.body.results[1].college_mark = 4500
    /\ response.body.results[2].college_mark = 5000
    /\ response.body.results[2].id < response.body.results[1].id

\* C16: bmi_distribution called without `by` returns a single overall
\* result whenever at least one Student exists (count = 1), whose total is
\* the number of Students and whose four bucket counts cover all of them.
C16_UngroupedIsOneResult ==
    /\ response.op = "bmi_distribution"
    /\ response.query.by = None
    /\ student # {}
    => /\ response.status = 200
       /\ response.body.count = 1
       /\ response.body.results[1].total = Cardinality(student)
       /\ response.body.results[1].underweight + response.body.results[1].normal
            + response.body.results[1].overweight + response.body.results[1].obese
          = Cardinality(student)

\* C17: bmi_distribution with by=gender (respectively by=department) returns
\* exactly one result for each distinct gender (respectively department
\* name) that has at least one Student, each with total equal to the number
\* of Students of that group, so that the totals sum to the number of
\* Students.
C17_OneResultPerGroup ==
    response.op = "bmi_distribution" /\ response.query.by \in {<<"g","e","n","d","e","r">>, <<"d","e","p","a","r","t","m","e","n","t">>} =>
        LET RECURSIVE totals(_)
            totals(results) ==
                IF results = << >> THEN 0 ELSE Head(results).total + totals(Tail(results))
            group_of(s) ==
                IF response.query.by = <<"g","e","n","d","e","r">> THEN ENUM_TEXT[s.gender]
                ELSE (CHOOSE d \in department : d.id = s.department).name
            groups == {group_of(s) : s \in student}
        IN /\ response.status = 200
           /\ response.body.count = Cardinality(groups)
           /\ Len(response.body.results) = Cardinality(groups)
           /\ {response.body.results[i].group : i \in DOMAIN response.body.results} = groups
           /\ \A i \in DOMAIN response.body.results :
                 response.body.results[i].total
                   = Cardinality({s \in student : group_of(s) = response.body.results[i].group})
           /\ totals(response.body.results) = Cardinality(student)

\* by=gender on the three students of setUp, two Male and one Female: the
\* groups are Female with total 1 and Male with total 2.
C17_Witness ==
    /\ response.op = "bmi_distribution"
    /\ response.query.by = <<"g","e","n","d","e","r">>
    /\ Cardinality(student) = 3
    /\ Cardinality({s \in student : s.gender = "Male"}) = 2
    /\ Cardinality({s \in student : s.gender = "Female"}) = 1
    /\ response.body.count = 2
    /\ response.body.results[1].group = <<"F","e","m","a","l","e">> /\ response.body.results[1].total = 1
    /\ response.body.results[2].group = <<"M","a","l","e">> /\ response.body.results[2].total = 2

\* C18: in every bmi_distribution result each counted student falls in
\* exactly one bucket, with BMI = weight_kg / (height_cm/100)^2: underweight
\* if BMI < 18.5, normal if 18.5 <= BMI < 25, overweight if 25 <= BMI < 30,
\* obese if BMI >= 30, a value exactly on a boundary going to the higher
\* bucket; so the four buckets of a result sum to its total, and over the
\* results each bucket counts the Students whose BMI lies in it.
C18_BucketsByBmi ==
    response.op = "bmi_distribution" /\ response.status = 200 =>
        LET RECURSIVE counted(_, _)
            counted(results, name) ==
                IF results = << >> THEN 0
                ELSE Head(results)[name] + counted(Tail(results), name)
            gte(s, twice) == 20000 * s.weight_kg >= twice * s.height_cm * s.height_cm
            bucket(s) == IF ~gte(s, 37) THEN "underweight"
                         ELSE IF ~gte(s, 50) THEN "normal"
                         ELSE IF ~gte(s, 60) THEN "overweight"
                         ELSE "obese"
        IN /\ \A i \in DOMAIN response.body.results :
                 response.body.results[i].underweight + response.body.results[i].normal
                   + response.body.results[i].overweight + response.body.results[i].obese
                 = response.body.results[i].total
           /\ \A name \in {"underweight", "normal", "overweight", "obese"} :
                 counted(response.body.results, name)
                   = Cardinality({s \in student : bucket(s) = name})

\* C19 as amended: bmi_distribution validates `by` after trimming the
\* whitespace around it and lowering its case.  A `by` that is absent, empty
\* or whitespace only selects no grouping and is answered 200; one that
\* reads gender or department selects that grouping and is answered 200 with
\* group_by the lowered name; any other value is answered 400 with no
\* distribution.
C19_ByValidatedAfterNormalising ==
    response.op = "bmi_distribution" =>
        LET by == IF response.query.by = None THEN << >>
                  ELSE str_casefold(str_rstrip(str_lstrip(response.query.by)))
        IN IF by = << >>
           THEN /\ response.status = 200
                /\ response.body.group_by = None
                /\ \A i \in DOMAIN response.body.results :
                      response.body.results[i].group = None
           ELSE IF by = <<"g","e","n","d","e","r">>
           THEN /\ response.status = 200
                /\ response.body.group_by = <<"g","e","n","d","e","r">>
                /\ {response.body.results[i].group : i \in DOMAIN response.body.results}
                   = {ENUM_TEXT[s.gender] : s \in student}
           ELSE IF by = <<"d","e","p","a","r","t","m","e","n","t">>
           THEN /\ response.status = 200
                /\ response.body.group_by = <<"d","e","p","a","r","t","m","e","n","t">>
                /\ {response.body.results[i].group : i \in DOMAIN response.body.results}
                   = {d.name : d \in {x \in department :
                                        \E s \in student : s.department = x.id}}
           ELSE /\ response.status = 400
                /\ "results" \notin DOMAIN response.body

\* by=' Gender ' on a store with a Male and a Female: answered 200, grouped
\* by gender.
C19_Witness ==
    /\ response.op = "bmi_distribution"
    /\ response.query.by = <<" ","G","e","n","d","e","r"," ">>
    /\ response.status = 200
    /\ response.body.group_by = <<"g","e","n","d","e","r">>
    /\ response.body.count = 2
    /\ response.body.results[1].group = <<"F","e","m","a","l","e">>
    /\ response.body.results[2].group = <<"M","a","l","e">>

\* C19 as stated: a request that supplies `by` with a value other than
\* gender and department is rejected with HTTP 400 and returns no
\* distribution, and only those two values select a grouping.
C19_ByStrict ==
    response.op = "bmi_distribution" /\ response.query.by # None =>
        IF response.query.by \in {<<"g","e","n","d","e","r">>, <<"d","e","p","a","r","t","m","e","n","t">>}
        THEN response.status = 200 /\ response.body.group_by = response.query.by
        ELSE response.status = 400 /\ "results" \notin DOMAIN response.body

\* C20: departments_summary returns one row for every Department, those
\* with no students included, sorted by department name; the student_count
\* of a row is the number of Students that reference the department, and
\* avg_college_mark and avg_salary_expectation are null exactly when the
\* department has no students.
C20_SummaryPerDepartment ==
    response.op = "departments_summary" =>
        /\ response.body.count = Cardinality(department)
        /\ Len(response.body.results) = Cardinality(department)
        /\ {response.body.results[i].department_id : i \in DOMAIN response.body.results}
           = {d.id : d \in department}
        /\ \A i, j \in DOMAIN response.body.results :
              i < j => str_less(response.body.results[i].department_name,
                                response.body.results[j].department_name)
        /\ \A i \in DOMAIN response.body.results :
              /\ \E d \in department :
                    /\ d.id = response.body.results[i].department_id
                    /\ d.name = response.body.results[i].department_name
              /\ response.body.results[i].student_count
                 = Cardinality({s \in student :
                                  s.department = response.body.results[i].department_id})
              /\ ~response.body.results[i].avg_college_mark.ok
                 <=> response.body.results[i].student_count = 0
              /\ ~response.body.results[i].avg_salary_expectation.ok
                 <=> response.body.results[i].student_count = 0

\* C21: studytime_performance returns its rows in the canonical order of
\* the DailyStudyTime buckets (0-30m, 30-60m, 1-2h, 2-3h, 3-4h, >4h), for
\* every combination of populated buckets.
C21_CanonicalBucketOrder ==
    response.op = "studytime_performance" =>
        LET canonical == <<<<"0","-","3","0","m">>, <<"3","0","-","6","0","m">>, <<"1","-","2","h">>, <<"2","-","3","h">>, <<"3","-","4","h">>, <<">","4","h">>>>
            place(bucket) == CHOOSE k \in DOMAIN canonical : canonical[k] = bucket
        IN \A i, j \in DOMAIN response.body.results :
              /\ i < j
              /\ response.body.results[i].daily_studying_time # None
              /\ response.body.results[j].daily_studying_time # None
              => place(response.body.results[i].daily_studying_time)
                   < place(response.body.results[j].daily_studying_time)

C23_SameBooleanTable ==
    response.op = "students_search" /\ response.query.part_time_job # None =>
        /\ response.body.echo.part_time_job.ok = parse_bool(response.query.part_time_job).ok
        /\ response.body.echo.part_time_job.ok
              => response.body.echo.part_time_job.val
                   = parse_bool(response.query.part_time_job).val

\* C24: none of the six analytics operations (students_search,
\* departments_summary, parttime_impact, studytime_performance, risk_list,
\* bmi_distribution) changes any Department, Hobby, Student or
\* StudentMetrics row, for any parameter values, invalid ones included.
C24_AnalyticsReadOnly ==
    [][response'.op \in {"students_search", "departments_summary", "parttime_impact",
                         "studytime_performance", "risk_list", "bmi_distribution"}
          => UNCHANGED <<department, hobby, student, metrics>>]_vars

\* by=hobby on a store with Students: answered 400, the rows as they were.
C24_Witness ==
    /\ response.op = "bmi_distribution"
    /\ response.query.by = <<"h","o","b","b","y">>
    /\ response.status = 400
    /\ Cardinality(student) = 3
    /\ Cardinality(metrics) = 3

\* C30: parttime_impact partitions the students in every reachable state:
\* with_part_time_job.student_count + without_part_time_job.student_count
\* is the number of Students, and a group with no students reports
\* student_count 0 and null for all three averages.
C30_ParttimePartition ==
    response.op = "parttime_impact" =>
        /\ response.body.with_part_time_job.student_count
             + response.body.without_part_time_job.student_count
           = Cardinality(student)
        /\ \A group \in {"with_part_time_job", "without_part_time_job"} :
              response.body[group].student_count = 0
                => /\ ~response.body[group].avg_college_mark.ok
                   /\ ~response.body[group].avg_salary_expectation.ok
                   /\ ~response.body[group].avg_willingness_percent.ok

\* C26: in every state reachable through the student API (create, PUT,
\* PATCH) and load_students, every Student has 50 <= height_cm <= 250 and
\* 20 <= weight_kg <= 300, so the height that the BMI expression of
\* bmi_distribution divides by is never zero.
C26_HeightAndWeightInRange ==
    \A s \in student :
        /\ 50 <= s.height_cm /\ s.height_cm <= 250
        /\ 20 <= s.weight_kg /\ s.weight_kg <= 300
        /\ s.height_cm * s.height_cm # 0

\* A load of the file whose first line has the height 300 and whose second
\* line parses: the first is an error, the second is stored.
C26_Witness ==
    /\ response.op = "load_students"
    /\ CSV_FILES[response.csv_path].rows = <<3, 2>>
    /\ response.status = "loaded"
    /\ response.students_created = 1
    /\ response.errors # << >>
    /\ \E s \in student : s.height_cm = 160 /\ s.weight_kg = 55

\* C28: in every state reachable through the API and load_students, the
\* 'Fair' count of departments_summary is 0 for every department, because
\* every stored stress_level is one of Good, Fabulous, Bad, Awful.
C28_NoFairStress ==
    /\ \A m \in metrics : m.stress_level \in StressLevel
    /\ \A i \in DOMAIN departments_summary(Store).results :
          departments_summary(Store).results[i].stress_distribution["Fair"] = 0

\* A load of the file whose first line has the stress level Fair and whose
\* second line parses: the first is an error and metrics are stored.
C28_Witness ==
    /\ response.op = "load_students"
    /\ CSV_FILES[response.csv_path].rows = <<4, 1>>
    /\ response.status = "loaded"
    /\ response.errors = <<2>>
    /\ metrics # {}
    /\ departments_summary(Store).count > 0

\* C29: every StudentMetrics row created by load_students is attached to
\* the Student built from the same CSV line: the gender, height and weight
\* of its Student and its own marks, enums and booleans all come from one
\* line of the file, for any mix of valid and failing rows.
C29_MetricsOfTheSameLine ==
    [][response'.op = "load_students" /\ response'.status = "loaded"
          => \A m \in metrics' \ metrics :
                \E s \in student' :
                   /\ s.id = m.student
                   /\ \E i \in DOMAIN FILES_READ[response'.csv_path].parsed :
                         LET line == FILES_READ[response'.csv_path].parsed[i]
                         IN /\ line.student.ok
                            /\ line.metrics.ok
                            /\ s.gender = line.student.gender
                            /\ s.height_cm = line.student.height_cm
                            /\ s.weight_kg = line.student.weight_kg
                            /\ \A f \in DOMAIN line.metrics.payload :
                                  m[f] = line.metrics.payload[f]]_vars

\* C27: in every state reachable through the student API and
\* load_students, every StudentMetrics has mark_10th, mark_12th and
\* college_mark in [0, 100], willingness_percent in [0, 100] and
\* salary_expectation in [0, 10,000,000]; a CSV row with a value out of
\* range in one of these columns is a row error and is not inserted.
C27_MetricsInRange ==
    /\ \A m \in metrics :
          /\ \A f \in {"mark_10th", "mark_12th", "college_mark"} :
                0 <= m[f] /\ m[f] <= 100 * 100
          /\ 0 <= m.willingness_percent /\ m.willingness_percent <= 100
          /\ 0 <= m.salary_expectation /\ m.salary_expectation <= 10000000
    /\ response.op = "load_students" /\ CSV_FILES[response.csv_path].rows = <<6>>
          => /\ response.errors = <<2>>
             /\ response.students_created = 0
             /\ response.metrics_created = 0

\* C25: after any number of consecutive seed_admin runs with non-empty
\* ADMIN_USERNAME, ADMIN_PASSWORD and ADMIN_EMAIL, exactly one user with
\* the configured username exists and that user is privileged (superuser
\* and staff), whatever users existed before the first run; a run with a
\* missing or blank setting fails and creates no user.
C25_SeedAdminOnePrivilegedUser ==
    [][response'.op = "seed_admin"
          => LET blank == \E name \in DOMAIN response'.settings :
                             \/ response'.settings[name] = None
                             \/ str_strip(response'.settings[name]) = << >>
                 named == {u \in auth_user' :
                              u.username = response'.settings.ADMIN_USERNAME}
             IN IF blank
                THEN response'.status = "CommandError" /\ auth_user' = auth_user
                ELSE /\ Cardinality(named) = 1
                     /\ \A u \in named : u.is_superuser /\ u.is_staff]_vars

====
